---------------------------- MODULE Spec2Model ----------------------------
(***************************************************************************)
(* ChatLead API: the onboarding handler with compensating rollback         *)
(* (src/unnamed/part_001, lines 1-229), the legacy handlers with the       *)
(* self-hosted password hash (src/unnamed/part_001, lines 230-366), the    *)
(* first revision's onboarding and Identity-Provider login (src/index.js,  *)
(* lines 1-188) and the fourth revision's onboarding (src/index.js, lines  *)
(* 508-678).                                                               *)
(*                                                                         *)
(* A request handler is an async function: it runs without interruption    *)
(* from one await to the next.  Each action below is the completion of the *)
(* outstanding collaborator call of one request together with everything   *)
(* the handler does with the result, up to and including the issue of its  *)
(* next call (or its response).  Requests interleave at the awaits.        *)
(*                                                                         *)
(* Strings whose characters matter are sequences of one-character strings. *)
(***************************************************************************)
EXTENDS Integers, Sequences, FiniteSets, TLC

VARIABLES
    auth,             \* Identity Provider: the auth identities
    clients,          \* Record Store, table 'clients'
    users,            \* table 'users'
    contacts,         \* table 'contacts'
    companies,        \* table 'companies'
    contact_company,  \* table 'contact_company'
    pc,               \* per request: the call the handler awaits
    body,             \* per request: req.body
    loc,              \* per request: the handler's local variables
    failed,           \* per request: the step whose error started a rollback
    rbIdx,            \* per request: position in that rollback sequence
    res,              \* per request: the response sent
    calls,            \* per request: the collaborator calls issued, in order
    rets,             \* per request: the outcomes of the calls returned
    swallowed,        \* per request: how its failed rollback deletes failed
    usuarios,         \* legacy revision: table 'usuarios'
    clientes,         \* legacy revision: table 'clientes'
    authLegacy,       \* legacy revision: the auth identities
    legacyN,          \* legacy revision: requests handled so far
    legacyRes,        \* legacy revision: the responses sent so far
    loginPc,          \* per login request: the call the handler awaits
    loginBody,        \* per login request: req.body
    loginData,        \* per login request: the data signInWithPassword returned
    loginRes,         \* per login request: the response sent
    loginCalls,       \* per login request: the collaborator calls issued
    loginRets,        \* per login request: the outcomes of the calls returned
    loginAfter        \* per login request: the onboardings answered 201 for
                      \* its credentials before it arrived

vars == <<auth, clients, users, contacts, companies, contact_company,
          pc, body, loc, failed, rbIdx, res, calls, rets, swallowed,
          usuarios, clientes, authLegacy, legacyN, legacyRes,
          loginPc, loginBody, loginData, loginRes, loginCalls, loginRets, loginAfter>>

storeVars == <<auth, clients, users, contacts, companies, contact_company>>
legacyVars == <<usuarios, clientes, authLegacy, legacyN, legacyRes>>
reqVars == <<pc, body, loc, failed, rbIdx, res, calls, rets, swallowed>>
loginVars == <<loginPc, loginBody, loginData, loginRes, loginCalls, loginRets, loginAfter>>

-----------------------------------------------------------------------------
(* Bounds *)

\* Onboarding requests in flight together.
NumReqs == 1

Reqs == 1..NumReqs

\* The request of the specifications that run one onboarding.
FirstReq == CHOOSE r \in Reqs : \A q \in Reqs : r <= q

\* Requests the legacy revision handles in one run.
MaxLegacyReqs == 3

\* Length of the documents drawn character by character.
MaxDocLen == 3

\* Onboarding requests that race for one email.
NumRacers == 2

\* Login requests in flight together.
NumLogins == 2

Logins == 1..NumLogins

-----------------------------------------------------------------------------
(* Values *)

\* JavaScript null / undefined: no string, since a string's elements are
\* single characters.
Null == <<"null">>

\* The id the Record Store or the Identity Provider assigns to the row that
\* request r inserts in table t (a fresh uuid: one per insert).
Id(t, r) == <<t, r>>

FullNames == {<<"A", "n">>}
CompanyNames == {<<"X", "P">>}
Documents == {<<"1", "2", ".", "3", "-", "0">>}
Phones == {<<"(", "1", ")", " ", "9", "-", "9">>}
Emails == {<<"a", "@", "x">>, <<"b", "@", "x">>}
Passwords == {<<"p", "w">>}

TextFields == {"full_name", "company_name", "document", "email", "password", "phone"}

ClientTypes == {"individual", "company", "other"}

\* A complete body: every field present and non-empty.
FullBodies ==
    { [client_type |-> t, full_name |-> n, company_name |-> c, document |-> d,
       email |-> e, password |-> p, phone |-> ph] :
        t \in ClientTypes, n \in FullNames, c \in CompanyNames, d \in Documents,
        e \in Emails, p \in Passwords, ph \in Phones }

\* The complete bodies from which the incomplete ones are made.
BaseBodies == {b \in FullBodies : b.email = <<"b", "@", "x">>}

\* b without its field k.
Without(b, k) == [f \in DOMAIN b \ {k} |-> b[f]]

\* The bodies a request may carry: a complete body, or a complete body with
\* one field missing or one field the empty string.
Payloads ==
    FullBodies
    \cup { Without(b, k) : b \in BaseBodies, k \in TextFields \cup {"client_type"} }
    \cup { [b EXCEPT ![k] = <<>>] : b \in BaseBodies, k \in TextFields }

\* req.body.k (undefined when the key is missing).
Field(b, k) == IF k \in DOMAIN b THEN b[k] ELSE Null

\* JavaScript truthiness of a body field: !x is true of undefined and of ''.
Truthy(b, k) == k \in DOMAIN b /\ b[k] # <<>>


-----------------------------------------------------------------------------
(* Pure helpers of the rollback revision *)

Digits == {"0", "1", "2", "3", "4", "5", "6", "7", "8", "9"}
IsDigit(c) == c \in Digits

\* /\s/
Whitespace == {" ", "\t", "\n"}
IsNotSpace(c) == c \notin Whitespace

\* /[\(\)\-\.]/
PhonePunct == {"(", ")", "-", "."}
IsNotPhonePunct(c) == c \notin PhonePunct

\* (s || '')
OrEmpty(s) == IF s = Null \/ s = <<>> THEN <<>> ELSE s

\* Mutant: the pattern has no g flag, and only the first run of non-digits
\* is removed.
onlyDigitsFirstRun(s) ==
    LET t == OrEmpty(s)
        nd == {i \in 1..Len(t) : t[i] \notin Digits}
    IN  IF nd = {}
        THEN t
        ELSE LET i == CHOOSE i \in nd : \A j \in nd : i <= j
                 e == CHOOSE e \in i..Len(t) :
                        /\ \A k \in i..e : t[k] \notin Digits
                        /\ e = Len(t) \/ t[e + 1] \in Digits
             IN  SubSeq(t, 1, i - 1) \o SubSeq(t, e + 1, Len(t))

\* const onlyDigits = (s) => (s || '').toString().replace(/\D+/g, '')
onlyDigits(s) == SelectSeq(OrEmpty(s), IsDigit)

\* (phone || '').replace(/\s+/g, '').replace(/[\(\)\-\.]/g, '')
normalizePhone(s) == SelectSeq(SelectSeq(OrEmpty(s), IsNotSpace), IsNotPhonePunct)

\* bcrypt.hash(password, 10): a digest that is not the password and that
\* bcrypt.compare recognises.
Hash(pw) == <<"$2a$10$">> \o pw

\* bcrypt.compare(password, digest)
Compare(pw, digest) == digest = Hash(pw)

MsgMissingIndividual == "Missing required fields for individual."
MsgMissingCompany == "Missing required fields for company."
MsgInvalidType == "Invalid client_type. Must be 'individual' or 'company'."
MsgNoAuthUser == "Auth user not returned by signUp."
MsgInternal == "Internal server error."
MsgCreated == "Cadastro iniciado com sucesso! Enviamos um e-mail para confirmação."

\* Mutant: the company branch forgets company_name.
ValidateNoCompanyName(b) ==
    LET t == IF "client_type" \in DOMAIN b THEN b.client_type ELSE "undefined"
    IN  IF t \in {"individual", "company"}
        THEN IF ~Truthy(b, "full_name") \/ ~Truthy(b, "document") \/ ~Truthy(b, "email")
                \/ ~Truthy(b, "password") \/ ~Truthy(b, "phone")
             THEN IF t = "individual" THEN MsgMissingIndividual ELSE MsgMissingCompany
             ELSE "ok"
        ELSE MsgInvalidType

\* The validation by type: "ok", or the message of the 400 response.
Validate(b) ==
    LET t == IF "client_type" \in DOMAIN b THEN b.client_type ELSE "undefined"
    IN  IF t = "individual"
        THEN IF ~Truthy(b, "full_name") \/ ~Truthy(b, "document") \/ ~Truthy(b, "email")
                \/ ~Truthy(b, "password") \/ ~Truthy(b, "phone")
             THEN MsgMissingIndividual
             ELSE "ok"
        ELSE IF t = "company"
        THEN IF ~Truthy(b, "full_name") \/ ~Truthy(b, "company_name")
                \/ ~Truthy(b, "document") \/ ~Truthy(b, "email")
                \/ ~Truthy(b, "password") \/ ~Truthy(b, "phone")
             THEN MsgMissingCompany
             ELSE "ok"
        ELSE MsgInvalidType

\* The message of the error value a collaborator returns from call op on
\* target t (error.message).
ErrMsg(op, t) ==
    CASE op = "signUp" -> "signUp: error"
      [] op = "updateUserById" -> "updateUserById: error"
      [] op = "createUser" -> "createUser: error"
      [] op = "insert" /\ t = "clients" -> "insert clients: error"
      [] op = "insert" /\ t = "users" -> "insert users: error"
      [] op = "insert" /\ t = "contacts" -> "insert contacts: error"
      [] op = "insert" /\ t = "companies" -> "insert companies: error"
      [] op = "insert" /\ t = "contact_company" -> "insert contact_company: error"
      [] OTHER -> "delete: error"

MsgAlreadyRegistered == "User already registered"

\* Mutant: the company flow's contact rollback is the individual flow's, and
\* leaves the Company row.
RollbackSeqNoCompany(step, ctype) ==
    CASE step = "clients" -> <<"auth">>
      [] step = "updateUserById" -> <<"auth", "clients">>
      [] step = "users" -> <<"auth", "clients">>
      [] step = "contacts" -> <<"auth", "users", "clients">>
      [] step = "companies" -> <<"auth", "users", "clients">>
      [] step = "contact_company" ->
            <<"contacts", "companies", "auth", "users", "clients">>

\* Mutant: the blocks delete in reverse creation order, the AuthIdentity last.
RollbackSeqReverse(step, ctype) ==
    CASE step = "clients" -> <<"auth">>
      [] step = "updateUserById" -> <<"clients", "auth">>
      [] step = "users" -> <<"clients", "auth">>
      [] step = "contacts" /\ ctype = "individual" -> <<"users", "clients", "auth">>
      [] step = "companies" -> <<"users", "clients", "auth">>
      [] step = "contacts" /\ ctype = "company" ->
            <<"companies", "users", "clients", "auth">>
      [] step = "contact_company" ->
            <<"contacts", "companies", "users", "clients", "auth">>

\* The deletes of the rollback block that follows the failure of a step, in
\* the order the block issues them.
RollbackSeq(step, ctype) ==
    CASE step = "clients" -> <<"auth">>
      [] step = "updateUserById" -> <<"auth", "clients">>
      [] step = "users" -> <<"auth", "clients">>
      [] step = "contacts" /\ ctype = "individual" -> <<"auth", "users", "clients">>
      [] step = "companies" -> <<"auth", "users", "clients">>
      [] step = "contacts" /\ ctype = "company" ->
            <<"companies", "auth", "users", "clients">>
      [] step = "contact_company" ->
            <<"contacts", "companies", "auth", "users", "clients">>

-----------------------------------------------------------------------------
(* State of a request *)

NoBody == [none |-> TRUE]
NoRes == [status |-> 0]

NoLoc ==
    [authUserId |-> Null, client_id |-> Null, user_id |-> Null,
     companyId |-> Null, contactId |-> Null,
     normalizedDocument |-> Null, normalizedPhone |-> Null,
     password_hash |-> Null, error |-> ""]

Call(op, t, id) == [op |-> op, target |-> t, id |-> id]

\* Mutant: the deletes of 'users' and 'clients' are filtered by each other's
\* identifier.
DeleteCallSwapped(r, t) ==
    CASE t = "auth" -> Call("deleteUser", "auth", loc[r].authUserId)
      [] t = "clients" -> Call("delete", "clients", loc[r].user_id)
      [] t = "users" -> Call("delete", "users", loc[r].client_id)
      [] t = "companies" -> Call("delete", "companies", loc[r].companyId)
      [] t = "contacts" -> Call("delete", "contacts", loc[r].contactId)

\* The delete that undoes table t's record of request r, with the identifier
\* the handler holds for it.
DeleteCall(r, t) ==
    CASE t = "auth" -> Call("deleteUser", "auth", loc[r].authUserId)
      [] t = "clients" -> Call("delete", "clients", loc[r].client_id)
      [] t = "users" -> Call("delete", "users", loc[r].user_id)
      [] t = "companies" -> Call("delete", "companies", loc[r].companyId)
      [] t = "contacts" -> Call("delete", "contacts", loc[r].contactId)

\* Mutant: the delete has no filter.
RemoveAll(rows, id) == {}

\* .delete().eq('id', id) / deleteUser(id)
Remove(rows, id) == {row \in rows : row.id # id}

-----------------------------------------------------------------------------
(* Building blocks of the handler's steps *)

\* The outstanding call returned `out`.
Returned(r, out) == rets' = [rets EXCEPT ![r] = Append(@, out)]

\* The handler issues its next call and awaits it.
Issue(r, call, next) ==
    /\ calls' = [calls EXCEPT ![r] = Append(@, call)]
    /\ pc' = [pc EXCEPT ![r] = next]
    /\ res' = res

\* return res.status(..).json(..)
Respond(r, response) ==
    /\ res' = [res EXCEPT ![r] = response]
    /\ pc' = [pc EXCEPT ![r] = "done"]
    /\ calls' = calls

Respond400(r, msg) == Respond(r, [status |-> 400, error |-> msg])

\* Mutant: the outer catch answers with what it caught.
CatchLeaks(r) ==
    Respond(r, [status |-> 500, error |-> "exception: " \o calls[r][Len(calls[r])].target])

\* Mutant: the outer catch logs the exception and sends nothing.
CatchSilent(r) ==
    /\ pc' = [pc EXCEPT ![r] = "done"]
    /\ res' = res
    /\ calls' = calls

\* catch (e) { ... return res.status(500).json({ error: 'Internal server error.' }) }
Catch(r) == Respond(r, [status |-> 500, error |-> MsgInternal])

\* A step's collaborator returned an error value: the handler keeps its
\* message and enters the step's rollback block with its first delete.
Fail(r, step, msg) ==
    /\ failed' = [failed EXCEPT ![r] = step]
    /\ rbIdx' = [rbIdx EXCEPT ![r] = 1]
    /\ loc' = [loc EXCEPT ![r].error = msg]
    /\ Issue(r, DeleteCall(r, RollbackSeq(step, body[r].client_type)[1]), "rollback")

-----------------------------------------------------------------------------
(* POST /onboarding, rollback revision *)

\* The request arrives with one of the given bodies: validation by type,
\* normalization, then signUp.
ReceiveFrom(r, bodies) ==
    /\ pc[r] = "idle"
    /\ \E b \in bodies :
        /\ body' = [body EXCEPT ![r] = b]
        /\ IF Validate(b) # "ok"
           THEN /\ Respond400(r, Validate(b))
                /\ loc' = loc
           ELSE /\ loc' = [loc EXCEPT ![r].normalizedDocument = onlyDigits(Field(b, "document")),
                                      ![r].normalizedPhone = normalizePhone(Field(b, "phone"))]
                /\ Issue(r, Call("signUp", "auth", Null), "signUp")
    /\ UNCHANGED <<storeVars, legacyVars, loginVars, failed, rbIdx, rets, swallowed>>

Receive(r) == ReceiveFrom(r, Payloads)

\* The auth identity signUp creates.
AuthRowOf(r, b) ==
    [id |-> Id("auth", r), email |-> b.email,
     user_metadata |-> b.full_name, app_metadata |-> Null]

AuthRow(r) == AuthRowOf(r, body[r])

\* supabase.auth.signUp returns.
SignUpReturn(r) ==
    /\ pc[r] = "signUp"
    /\ \/ \* a new identity: the provider holds at most one per email
          /\ \A a \in auth : a.email # body[r].email
          /\ auth' = auth \cup {AuthRow(r)}
          /\ Returned(r, "ok")
          /\ loc' = [loc EXCEPT ![r].authUserId = Id("auth", r)]
          /\ Issue(r, Call("insert", "clients", Null), "insertClient")
       \/ \* the email is registered already
          /\ \E a \in auth : a.email = body[r].email
          /\ Returned(r, "error")
          /\ Respond400(r, MsgAlreadyRegistered)
          /\ UNCHANGED <<auth, loc>>
       \/ \* any other error value
          /\ Returned(r, "error")
          /\ Respond400(r, ErrMsg("signUp", "auth"))
          /\ UNCHANGED <<auth, loc>>
       \/ \* no error and no user in the data
          /\ Returned(r, "nouser")
          /\ Respond400(r, MsgNoAuthUser)
          /\ UNCHANGED <<auth, loc>>
       \/ \* the call throws
          /\ Returned(r, "throw")
          /\ Catch(r)
          /\ UNCHANGED <<auth, loc>>
    /\ UNCHANGED <<clients, users, contacts, companies, contact_company,
                   legacyVars, loginVars, body, failed, rbIdx, swallowed>>

\* Mutant: company_name is stored as it came.
ClientRowOfAsSent(r, b, l) ==
    [id |-> Id("clients", r),
     full_name |-> b.full_name,
     company_name |-> Field(b, "company_name"),
     document |-> l.normalizedDocument,
     email |-> b.email,
     phone |-> l.normalizedPhone,
     client_type |-> b.client_type]

\* The row of the insert into 'clients'.
ClientRowOf(r, b, l) ==
    [id |-> Id("clients", r),
     full_name |-> b.full_name,
     company_name |-> IF b.client_type = "company" THEN Field(b, "company_name") ELSE Null,
     document |-> l.normalizedDocument,
     email |-> b.email,
     phone |-> l.normalizedPhone,
     client_type |-> b.client_type]

ClientRow(r) == ClientRowOf(r, body[r], loc[r])

\* Mutant: clientError is not tested, and the handler goes on.
InsertClientReturnUngated(r) ==
    /\ pc[r] = "insertClient"
    /\ \/ /\ clients' = clients \cup {ClientRow(r)}
          /\ Returned(r, "ok")
          /\ loc' = [loc EXCEPT ![r].client_id = Id("clients", r)]
          /\ Issue(r, Call("updateUserById", "auth", loc[r].authUserId), "updateUser")
          /\ UNCHANGED <<failed, rbIdx>>
       \/ /\ Returned(r, "error")
          /\ Issue(r, Call("updateUserById", "auth", loc[r].authUserId), "updateUser")
          /\ UNCHANGED <<clients, loc, failed, rbIdx>>
       \/ /\ Returned(r, "throw")
          /\ Catch(r)
          /\ UNCHANGED <<clients, loc, failed, rbIdx>>
    /\ UNCHANGED <<auth, users, contacts, companies, contact_company, legacyVars, loginVars, body, swallowed>>

\* The insert into 'clients' returns.
InsertClientReturn(r) ==
    /\ pc[r] = "insertClient"
    /\ \/ /\ clients' = clients \cup {ClientRow(r)}
          /\ Returned(r, "ok")
          /\ loc' = [loc EXCEPT ![r].client_id = Id("clients", r)]
          /\ Issue(r, Call("updateUserById", "auth", loc[r].authUserId), "updateUser")
          /\ UNCHANGED <<failed, rbIdx>>
       \/ /\ Returned(r, "error")
          /\ Fail(r, "clients", ErrMsg("insert", "clients"))
          /\ UNCHANGED clients
       \/ /\ Returned(r, "throw")
          /\ Catch(r)
          /\ UNCHANGED <<clients, loc, failed, rbIdx>>
    /\ UNCHANGED <<auth, users, contacts, companies, contact_company, legacyVars, loginVars, body, swallowed>>

\* supabase.auth.admin.updateUserById returns; on success the handler
\* awaits bcrypt.hash.
UpdateUserReturn(r) ==
    /\ pc[r] = "updateUser"
    /\ \/ /\ auth' = {IF a.id = loc[r].authUserId
                      THEN [a EXCEPT !.app_metadata = loc[r].client_id]
                      ELSE a : a \in auth}
          /\ Returned(r, "ok")
          /\ Issue(r, Call("hash", "bcrypt", Null), "hash")
          /\ UNCHANGED <<loc, failed, rbIdx>>
       \/ /\ Returned(r, "error")
          /\ Fail(r, "updateUserById", ErrMsg("updateUserById", "auth"))
          /\ UNCHANGED auth
       \/ /\ Returned(r, "throw")
          /\ Catch(r)
          /\ UNCHANGED <<auth, loc, failed, rbIdx>>
    /\ UNCHANGED <<clients, users, contacts, companies, contact_company, legacyVars, loginVars, body, swallowed>>

\* bcrypt.hash returns; the handler inserts into 'users'.
HashReturn(r) ==
    /\ pc[r] = "hash"
    /\ \/ /\ Returned(r, "ok")
          /\ loc' = [loc EXCEPT ![r].password_hash = Hash(body[r].password)]
          /\ Issue(r, Call("insert", "users", Null), "insertUser")
       \/ /\ Returned(r, "throw")
          /\ Catch(r)
          /\ UNCHANGED loc
    /\ UNCHANGED <<storeVars, legacyVars, loginVars, body, failed, rbIdx, swallowed>>

\* Mutant: the two references are swapped.
UserRowOfSwapped(r, b, l) ==
    [id |-> Id("users", r),
     client_id |-> l.authUserId,
     id_auth |-> l.client_id,
     full_name |-> b.full_name,
     email |-> b.email,
     password_hash |-> l.password_hash]

\* The row of the insert into 'users'.
UserRowOf(r, b, l) ==
    [id |-> Id("users", r),
     client_id |-> l.client_id,
     id_auth |-> l.authUserId,
     full_name |-> b.full_name,
     email |-> b.email,
     password_hash |-> l.password_hash]

UserRow(r) == UserRowOf(r, body[r], loc[r])

\* Mutant: the test is inverted.
BusinessStepInverted(ctype) == IF ctype # "individual" THEN "contacts" ELSE "companies"

\* if (client_type === 'individual') { contacts ... } else: companies first.
BusinessStep(ctype) == IF ctype = "individual" THEN "contacts" ELSE "companies"

\* The insert into 'users' returns; the handler branches on client_type.
InsertUserReturn(r) ==
    /\ pc[r] = "insertUser"
    /\ \/ /\ users' = users \cup {UserRow(r)}
          /\ Returned(r, "ok")
          /\ loc' = [loc EXCEPT ![r].user_id = Id("users", r)]
          /\ IF BusinessStep(body[r].client_type) = "contacts"
             THEN Issue(r, Call("insert", "contacts", Null), "insertContactInd")
             ELSE Issue(r, Call("insert", "companies", Null), "insertCompany")
          /\ UNCHANGED <<failed, rbIdx>>
       \/ /\ Returned(r, "error")
          /\ Fail(r, "users", ErrMsg("insert", "users"))
          /\ UNCHANGED users
       \/ /\ Returned(r, "throw")
          /\ Catch(r)
          /\ UNCHANGED <<users, loc, failed, rbIdx>>
    /\ UNCHANGED <<auth, clients, contacts, companies, contact_company, legacyVars, loginVars, body, swallowed>>

\* The row of the insert into 'contacts' (both flows).
ContactRowOf(r, b, l) ==
    [id |-> Id("contacts", r),
     client_id |-> l.client_id,
     full_name |-> b.full_name,
     phone |-> l.normalizedPhone,
     email |-> b.email,
     responsible_id |-> l.user_id]

ContactRow(r) == ContactRowOf(r, body[r], loc[r])

\* Individual flow: the insert into 'contacts' returns.
InsertContactIndReturn(r) ==
    /\ pc[r] = "insertContactInd"
    /\ \/ /\ contacts' = contacts \cup {ContactRow(r)}
          /\ Returned(r, "ok")
          /\ Respond(r, [status |-> 201, message |-> MsgCreated,
                         client_id |-> loc[r].client_id, user_id |-> loc[r].user_id])
          /\ UNCHANGED <<loc, failed, rbIdx>>
       \/ /\ Returned(r, "error")
          /\ Fail(r, "contacts", ErrMsg("insert", "contacts"))
          /\ UNCHANGED contacts
       \/ /\ Returned(r, "throw")
          /\ Catch(r)
          /\ UNCHANGED <<contacts, loc, failed, rbIdx>>
    /\ UNCHANGED <<auth, clients, users, companies, contact_company, legacyVars, loginVars, body, swallowed>>

\* The row of the insert into 'companies'.
CompanyRow(r) ==
    [id |-> Id("companies", r),
     client_id |-> loc[r].client_id,
     name |-> Field(body[r], "company_name"),
     cnpj |-> loc[r].normalizedDocument,
     responsible_id |-> loc[r].user_id]

\* Company flow: the insert into 'companies' returns.
InsertCompanyReturn(r) ==
    /\ pc[r] = "insertCompany"
    /\ \/ /\ companies' = companies \cup {CompanyRow(r)}
          /\ Returned(r, "ok")
          /\ loc' = [loc EXCEPT ![r].companyId = Id("companies", r)]
          /\ Issue(r, Call("insert", "contacts", Null), "insertContact")
          /\ UNCHANGED <<failed, rbIdx>>
       \/ /\ Returned(r, "error")
          /\ Fail(r, "companies", ErrMsg("insert", "companies"))
          /\ UNCHANGED companies
       \/ /\ Returned(r, "throw")
          /\ Catch(r)
          /\ UNCHANGED <<companies, loc, failed, rbIdx>>
    /\ UNCHANGED <<auth, clients, users, contacts, contact_company, legacyVars, loginVars, body, swallowed>>

\* Company flow: the insert into 'contacts' returns.
InsertContactReturn(r) ==
    /\ pc[r] = "insertContact"
    /\ \/ /\ contacts' = contacts \cup {ContactRow(r)}
          /\ Returned(r, "ok")
          /\ loc' = [loc EXCEPT ![r].contactId = Id("contacts", r)]
          /\ Issue(r, Call("insert", "contact_company", Null), "insertLink")
          /\ UNCHANGED <<failed, rbIdx>>
       \/ /\ Returned(r, "error")
          /\ Fail(r, "contacts", ErrMsg("insert", "contacts"))
          /\ UNCHANGED contacts
       \/ /\ Returned(r, "throw")
          /\ Catch(r)
          /\ UNCHANGED <<contacts, loc, failed, rbIdx>>
    /\ UNCHANGED <<auth, clients, users, companies, contact_company, legacyVars, loginVars, body, swallowed>>

\* Mutant: the two identifiers are swapped.
LinkRowSwapped(r) == [contact_id |-> loc[r].companyId, company_id |-> loc[r].contactId]

\* The row of the insert into 'contact_company'.
LinkRow(r) == [contact_id |-> loc[r].contactId, company_id |-> loc[r].companyId]

\* Company flow: the insert into 'contact_company' returns.
InsertLinkReturn(r) ==
    /\ pc[r] = "insertLink"
    /\ \/ /\ contact_company' = contact_company \cup {LinkRow(r)}
          /\ Returned(r, "ok")
          /\ Respond(r, [status |-> 201, message |-> MsgCreated,
                         client_id |-> loc[r].client_id, user_id |-> loc[r].user_id,
                         company_id |-> loc[r].companyId, contact_id |-> loc[r].contactId])
          /\ UNCHANGED <<loc, failed, rbIdx>>
       \/ /\ Returned(r, "error")
          /\ Fail(r, "contact_company", ErrMsg("insert", "contact_company"))
          /\ UNCHANGED contact_company
       \/ /\ Returned(r, "throw")
          /\ Catch(r)
          /\ UNCHANGED <<contact_company, loc, failed, rbIdx>>
    /\ UNCHANGED <<auth, clients, users, contacts, companies, legacyVars, loginVars, body, swallowed>>

\* A delete of a rollback block returns: try { await <delete> } catch (_) {}.
\* Its error value is not read and its exception is swallowed; the block goes
\* on with its next delete, and after its last delete answers 400 with the
\* failed step's message.  A delete that returned an error value and one that
\* threw leave the handler in the same place: rets records "failed" for both
\* and swallowed records which of the two happened.  CatchesDelete tells the
\* outcomes of a delete that its try/catch keeps from the outer catch: all.
\* Mutant: a delete stands outside a try/catch, and its exception escapes.
CatchesDeleteNoThrow(out) == out \in {"ok", "error"}

CatchesDelete(out) == out \in {"ok", "error", "throw"}

\* Mutant: a failed rollback answers with the rollback's failure.
RollbackResponseOfRollback(r) ==
    IF swallowed[r] = {}
    THEN [status |-> 400, error |-> loc[r].error]
    ELSE [status |-> 400, error |-> ErrMsg("delete", "any")]

\* The response that ends a rollback block: the failed step's message.
RollbackResponse(r) == [status |-> 400, error |-> loc[r].error]

DeleteReturn(r) ==
    /\ pc[r] = "rollback"
    /\ LET seq == RollbackSeq(failed[r], body[r].client_type)
           call == calls[r][Len(calls[r])]
       IN  /\ \E out \in {"ok", "error", "throw"} :
                /\ Returned(r, IF out = "ok" THEN "ok" ELSE "failed")
                /\ swallowed' = [swallowed EXCEPT ![r] = IF out = "ok" THEN @ ELSE @ \cup {out}]
                /\ auth' = IF out = "ok" /\ call.target = "auth"
                           THEN Remove(auth, call.id) ELSE auth
                /\ clients' = IF out = "ok" /\ call.target = "clients"
                              THEN Remove(clients, call.id) ELSE clients
                /\ users' = IF out = "ok" /\ call.target = "users"
                            THEN Remove(users, call.id) ELSE users
                /\ contacts' = IF out = "ok" /\ call.target = "contacts"
                               THEN Remove(contacts, call.id) ELSE contacts
                /\ companies' = IF out = "ok" /\ call.target = "companies"
                                THEN Remove(companies, call.id) ELSE companies
                /\ IF ~CatchesDelete(out)
                   THEN /\ rbIdx' = rbIdx
                        /\ Catch(r)
                   ELSE IF rbIdx[r] < Len(seq)
                   THEN /\ rbIdx' = [rbIdx EXCEPT ![r] = @ + 1]
                        /\ Issue(r, DeleteCall(r, seq[rbIdx[r] + 1]), "rollback")
                   ELSE /\ rbIdx' = rbIdx
                        /\ Respond(r, RollbackResponse(r))
    /\ UNCHANGED <<contact_company, legacyVars, loginVars, body, loc, failed>>

\* An onboarding that finished with 201 before the requests of this model
\* arrived: the complete individual record set of request 0.
PriorBody ==
    CHOOSE b \in FullBodies : b.client_type = "individual" /\ b.email = <<"a", "@", "x">>

PriorLoc ==
    [NoLoc EXCEPT !.authUserId = Id("auth", 0),
                  !.client_id = Id("clients", 0),
                  !.user_id = Id("users", 0),
                  !.normalizedDocument = onlyDigits(PriorBody.document),
                  !.normalizedPhone = normalizePhone(PriorBody.phone),
                  !.password_hash = Hash(PriorBody.password)]

PriorAuth == {[AuthRowOf(0, PriorBody) EXCEPT !.app_metadata = Id("clients", 0)]}
PriorClients == {ClientRowOf(0, PriorBody, PriorLoc)}
PriorUsers == {UserRowOf(0, PriorBody, PriorLoc)}
PriorContacts == {ContactRowOf(0, PriorBody, PriorLoc)}

\* The server starts with no request in flight, over a store that holds the
\* records of an earlier onboarding: the first of the two emails is
\* registered, the second is free.
InitRequests(requests) ==
    /\ pc = [r \in requests |-> "idle"]
    /\ body = [r \in requests |-> NoBody]
    /\ loc = [r \in requests |-> NoLoc]
    /\ failed = [r \in requests |-> "none"]
    /\ rbIdx = [r \in requests |-> 0]
    /\ res = [r \in requests |-> NoRes]
    /\ calls = [r \in requests |-> <<>>]
    /\ rets = [r \in requests |-> <<>>]
    /\ swallowed = [r \in requests |-> {}]
    /\ usuarios = {} /\ clientes = {} /\ authLegacy = {}
    /\ legacyN = 0 /\ legacyRes = {}
    /\ loginPc = [l \in Logins |-> "idle"]
    /\ loginBody = [l \in Logins |-> NoBody]
    /\ loginData = [l \in Logins |-> Null]
    /\ loginRes = [l \in Logins |-> NoRes]
    /\ loginCalls = [l \in Logins |-> <<>>]
    /\ loginRets = [l \in Logins |-> <<>>]
    /\ loginAfter = [l \in Logins |-> {}]

InitOver(requests) ==
    /\ auth = PriorAuth
    /\ clients = PriorClients
    /\ users = PriorUsers
    /\ contacts = PriorContacts
    /\ companies = {} /\ contact_company = {}
    /\ InitRequests(requests)

Init == InitOver(Reqs)

Onboarding(r) ==
    \/ Receive(r)
    \/ SignUpReturn(r)
    \/ InsertClientReturn(r)
    \/ UpdateUserReturn(r)
    \/ HashReturn(r)
    \/ InsertUserReturn(r)
    \/ InsertContactIndReturn(r)
    \/ InsertCompanyReturn(r)
    \/ InsertContactReturn(r)
    \/ InsertLinkReturn(r)
    \/ DeleteReturn(r)

Next == \E r \in Reqs : Onboarding(r)

Spec == Init /\ [][Next]_vars

\* The handler of a request that has arrived goes on: the call it awaits
\* returns a result, returns an error or throws.
Proceed(r) == pc[r] # "idle" /\ Onboarding(r)

\* Every call that is awaited returns at some time.
SpecLive == Spec /\ \A r \in Reqs : WF_vars(Proceed(r))

-----------------------------------------------------------------------------
(* The legacy revision: /onboarding, /cadastro and /login over 'clientes' and
   'usuarios', with the password hash kept in 'usuarios'.  Each handler is
   one action: the outcome of each of its collaborator calls is chosen when
   the call is made.  These handlers have no try/catch; a call that throws
   leaves the request unanswered and is not modelled. *)

LegacyEmails == {<<>>, <<"a", "@", "x">>, <<"b", "@", "x">>}
LegacyPasswords == {<<>>, <<"p", "w">>, <<"q">>}
LegacyNames == {<<>>, <<"A", "n">>}

MsgCamposAusentes == "Campos obrigatórios ausentes"
MsgEmailSenha == "Email e senha obrigatórios"
MsgNaoEncontrado == "Usuário não encontrado"
MsgSenhaInvalida == "Senha inválida"

\* What a legacy handler answered: the route, the request's credentials and
\* the response.  found and match tell what the store held when /login read
\* it: a 'usuarios' row with the email, and whether its hash is the hash of
\* the request's password.
LegacyAnswer(route, email, password, found, match, status, error) ==
    [route |-> route, email |-> email, password |-> password,
     found |-> found, match |-> match, status |-> status, error |-> error]

LegacyRespond(answer) ==
    /\ legacyRes' = legacyRes \cup {answer}
    /\ legacyN' = legacyN + 1

\* app.post('/onboarding') of the legacy revision.
LegacyOnboarding ==
    /\ legacyN < MaxLegacyReqs
    /\ \E nome_razao \in LegacyNames, email \in LegacyEmails,
          password \in LegacyPasswords, nome_usuario \in LegacyNames,
          authOut \in {"ok", "error"}, clienteOut \in {"ok", "error"},
          usuarioOut \in {"ok", "error"} :
        LET answer(status, error) ==
                LegacyAnswer("onboarding", email, password, FALSE, FALSE, status, error)
            created == authOut = "ok" /\ \A a \in authLegacy : a.email # email
        IN  IF nome_razao = <<>> \/ email = <<>> \/ password = <<>>
            THEN /\ LegacyRespond(answer(400, MsgCamposAusentes))
                 /\ UNCHANGED <<authLegacy, clientes, usuarios>>
            ELSE IF ~created
            THEN /\ LegacyRespond(answer(400, "createUser: error"))
                 /\ UNCHANGED <<authLegacy, clientes, usuarios>>
            ELSE /\ authLegacy' = authLegacy \cup {[id |-> Id("auth", legacyN), email |-> email]}
                 /\ IF clienteOut = "error"
                    THEN /\ LegacyRespond(answer(400, "insert clientes: error"))
                         /\ UNCHANGED <<clientes, usuarios>>
                    ELSE /\ clientes' = clientes \cup
                              {[id |-> Id("clientes", legacyN),
                                nome_razao |-> nome_razao, email |-> email]}
                         /\ IF usuarioOut = "error"
                            THEN /\ LegacyRespond(answer(400, "insert usuarios: error"))
                                 /\ UNCHANGED usuarios
                            ELSE /\ usuarios' = usuarios \cup
                                      {[id |-> Id("usuarios", legacyN),
                                        id_cliente |-> Id("clientes", legacyN),
                                        nome |-> IF nome_usuario # <<>>
                                                 THEN nome_usuario ELSE nome_razao,
                                        email |-> email,
                                        senha_hash |-> Hash(password),
                                        role |-> "admin"]}
                                 /\ LegacyRespond(answer(200, ""))
    /\ UNCHANGED <<storeVars, reqVars, loginVars>>

\* app.post('/cadastro') of the legacy revision.
LegacyCadastro ==
    /\ legacyN < MaxLegacyReqs
    /\ \E id_cliente \in {Null} \cup {c.id : c \in clientes}, nome \in LegacyNames,
          email \in LegacyEmails, password \in LegacyPasswords,
          authOut \in {"ok", "error"}, usuarioOut \in {"ok", "error"} :
        LET answer(status, error) ==
                LegacyAnswer("cadastro", email, password, FALSE, FALSE, status, error)
            created == authOut = "ok" /\ \A a \in authLegacy : a.email # email
        IN  IF id_cliente = Null \/ nome = <<>> \/ email = <<>> \/ password = <<>>
            THEN /\ LegacyRespond(answer(400, MsgCamposAusentes))
                 /\ UNCHANGED <<authLegacy, usuarios>>
            ELSE IF ~created
            THEN /\ LegacyRespond(answer(400, "createUser: error"))
                 /\ UNCHANGED <<authLegacy, usuarios>>
            ELSE /\ authLegacy' = authLegacy \cup {[id |-> Id("auth", legacyN), email |-> email]}
                 /\ IF usuarioOut = "error"
                    THEN /\ LegacyRespond(answer(400, "insert usuarios: error"))
                         /\ UNCHANGED usuarios
                    ELSE /\ usuarios' = usuarios \cup
                              {[id |-> Id("usuarios", legacyN),
                                id_cliente |-> id_cliente,
                                nome |-> nome,
                                email |-> email,
                                senha_hash |-> Hash(password),
                                role |-> "colaborador"]}
                         /\ LegacyRespond(answer(200, ""))
    /\ UNCHANGED <<storeVars, reqVars, loginVars, clientes>>

\* .from('usuarios').select('*').eq('email', email).single(): the row when
\* exactly one row has the email, an error otherwise.
SelectUsuario(email) == {u \in usuarios : u.email = email}

\* app.post('/login') of the legacy revision: look the email up in
\* 'usuarios', then compare the password with the row's hash.
LegacyLogin ==
    /\ legacyN < MaxLegacyReqs
    /\ \E email \in LegacyEmails, password \in LegacyPasswords,
          selectOut \in {"ok", "error"} :
        LET rows == SelectUsuario(email)
            found == rows # {}
            match == \E u \in rows : Compare(password, u.senha_hash)
            answer(status, error) ==
                LegacyAnswer("login", email, password, found, match, status, error)
        IN  IF email = <<>> \/ password = <<>>
            THEN LegacyRespond(answer(400, MsgEmailSenha))
            ELSE IF selectOut = "error" \/ Cardinality(rows) # 1
            THEN LegacyRespond(answer(400, MsgNaoEncontrado))
            ELSE IF ~Compare(password, (CHOOSE u \in rows : TRUE).senha_hash)
            THEN LegacyRespond(answer(401, MsgSenhaInvalida))
            ELSE LegacyRespond(answer(200, ""))
    /\ UNCHANGED <<storeVars, reqVars, loginVars, authLegacy, clientes, usuarios>>

NextLegacy == LegacyOnboarding \/ LegacyCadastro \/ LegacyLogin

SpecLegacy == Init /\ [][NextLegacy]_vars

-----------------------------------------------------------------------------
(* The rollback revision's handler over documents of every shape: one request
   whose document is any string of up to MaxDocLen characters, or one of the
   two formatted documents below. *)

\* The characters of a document: digits and punctuation.
DocChars == {"1", "2", ".", "-"}

RECURSIVE StringsUpTo(_)
StringsUpTo(n) ==
    IF n = 0
    THEN {<<>>}
    ELSE LET shorter == StringsUpTo(n - 1)
         IN  shorter \cup {Append(t, c) : t \in shorter, c \in DocChars}

\* '123.456.789-00'
ExampleCpf ==
    <<"1", "2", "3", ".", "4", "5", "6", ".", "7", "8", "9", "-", "0", "0">>

\* '12.345.678/0001-99'
ExampleCnpj ==
    <<"1", "2", ".", "3", "4", "5", ".", "6", "7", "8", "/", "0", "0", "0", "1",
      "-", "9", "9">>

DocumentInputs == StringsUpTo(MaxDocLen) \cup {ExampleCpf, ExampleCnpj}

\* A phone made of whitespace and of the characters ( ) - . only.
PunctPhone == <<"(", " ", ")", "-", ".">>

DocumentPayloads ==
    { [b EXCEPT !.document = d] :
        b \in {c \in BaseBodies : c.client_type # "other"}, d \in DocumentInputs }
    \cup { [b EXCEPT !.phone = PunctPhone] :
              b \in {c \in BaseBodies : c.client_type # "other"} }

ReceiveDocument(r) == ReceiveFrom(r, DocumentPayloads)

NextDocument ==
    \E r \in {FirstReq} :
        \/ ReceiveDocument(r)
        \/ SignUpReturn(r)
        \/ InsertClientReturn(r)
        \/ UpdateUserReturn(r)
        \/ HashReturn(r)
        \/ InsertUserReturn(r)
        \/ InsertContactIndReturn(r)
        \/ InsertCompanyReturn(r)
        \/ InsertContactReturn(r)
        \/ InsertLinkReturn(r)
        \/ DeleteReturn(r)

SpecDocument == Init /\ [][NextDocument]_vars

-----------------------------------------------------------------------------
(* The rollback revision's handler under a race: NumRacers requests that
   carry the same email, which no record set holds yet, interleaved at their
   awaits in every way. *)

Racers == 1..NumRacers

RacePayloads ==
    {b \in FullBodies : b.email = <<"b", "@", "x">> /\ b.client_type # "other"}

ReceiveRace(r) == ReceiveFrom(r, RacePayloads)

InitRace == InitOver(Racers)

NextRace ==
    \E r \in Racers :
        \/ ReceiveRace(r)
        \/ SignUpReturn(r)
        \/ InsertClientReturn(r)
        \/ UpdateUserReturn(r)
        \/ HashReturn(r)
        \/ InsertUserReturn(r)
        \/ InsertContactIndReturn(r)
        \/ InsertCompanyReturn(r)
        \/ InsertContactReturn(r)
        \/ InsertLinkReturn(r)
        \/ DeleteReturn(r)

SpecRace == InitRace /\ [][NextRace]_vars

-----------------------------------------------------------------------------
(* The first revision (src/index.js, lines 1-188): POST /onboarding without
   normalization and without rollback, and POST /login through the Identity
   Provider.  The server starts over an empty store. *)

MsgCreatedFirst == "Cadastro realizado com sucesso! Confira seu e-mail para confirmação."
MsgEmailExists == "A user with this email address has already been registered"
MsgLoginRequired == "Email and password are required."
MsgInvalidCredentials == "Invalid credentials."
MsgUserNotFound == "User not found in database."

FirstPayloads == {b \in FullBodies : b.email = <<"a", "@", "x">>}

\* The request arrives: validation by type, then createUser.
FirstReceive(r) ==
    /\ pc[r] = "idle"
    /\ \E b \in FirstPayloads :
        /\ body' = [body EXCEPT ![r] = b]
        /\ IF Validate(b) # "ok"
           THEN Respond400(r, Validate(b))
           ELSE Issue(r, Call("createUser", "auth", Null), "createUser")
    /\ UNCHANGED <<storeVars, legacyVars, loginVars, loc, failed, rbIdx, rets, swallowed>>

\* Mutant: the identity is created unconfirmed.
FirstAuthRowUnconfirmed(r) ==
    [id |-> Id("auth", r), email |-> body[r].email, password |-> body[r].password,
     email_confirm |-> FALSE]

\* The auth identity of createUser({ email, password, email_confirm: true }).
FirstAuthRow(r) ==
    [id |-> Id("auth", r), email |-> body[r].email, password |-> body[r].password,
     email_confirm |-> TRUE]

\* supabase.auth.admin.createUser returns.
FirstCreateUserReturn(r) ==
    /\ pc[r] = "createUser"
    /\ \/ \* a new identity: the provider holds at most one per email
          /\ \A a \in auth : a.email # body[r].email
          /\ auth' = auth \cup {FirstAuthRow(r)}
          /\ Returned(r, "ok")
          /\ loc' = [loc EXCEPT ![r].authUserId = Id("auth", r)]
          /\ Issue(r, Call("insert", "clients", Null), "insertClient")
       \/ \* the email is registered already
          /\ \E a \in auth : a.email = body[r].email
          /\ Returned(r, "error")
          /\ Respond400(r, MsgEmailExists)
          /\ UNCHANGED <<auth, loc>>
       \/ \* any other error value
          /\ Returned(r, "error")
          /\ Respond400(r, ErrMsg("createUser", "auth"))
          /\ UNCHANGED <<auth, loc>>
       \/ \* the call throws
          /\ Returned(r, "throw")
          /\ Catch(r)
          /\ UNCHANGED <<auth, loc>>
    /\ UNCHANGED <<clients, users, contacts, companies, contact_company,
                   legacyVars, loginVars, body, failed, rbIdx, swallowed>>

\* The row of the insert into 'clients': document and phone as they came.
FirstClientRow(r) ==
    [id |-> Id("clients", r),
     full_name |-> body[r].full_name,
     company_name |-> IF body[r].client_type = "company"
                      THEN Field(body[r], "company_name") ELSE Null,
     document |-> body[r].document,
     email |-> body[r].email,
     phone |-> body[r].phone,
     client_type |-> body[r].client_type]

\* The insert into 'clients' returns; on success the handler awaits
\* bcrypt.hash.
FirstInsertClientReturn(r) ==
    /\ pc[r] = "insertClient"
    /\ \/ /\ clients' = clients \cup {FirstClientRow(r)}
          /\ Returned(r, "ok")
          /\ loc' = [loc EXCEPT ![r].client_id = Id("clients", r)]
          /\ Issue(r, Call("hash", "bcrypt", Null), "hash")
       \/ /\ Returned(r, "error")
          /\ Respond400(r, ErrMsg("insert", "clients"))
          /\ UNCHANGED <<clients, loc>>
       \/ /\ Returned(r, "throw")
          /\ Catch(r)
          /\ UNCHANGED <<clients, loc>>
    /\ UNCHANGED <<auth, users, contacts, companies, contact_company,
                   legacyVars, loginVars, body, failed, rbIdx, swallowed>>

\* bcrypt.hash returns; the handler inserts into 'users'.
FirstHashReturn(r) ==
    /\ pc[r] = "hash"
    /\ \/ /\ Returned(r, "ok")
          /\ loc' = [loc EXCEPT ![r].password_hash = Hash(body[r].password)]
          /\ Issue(r, Call("insert", "users", Null), "insertUser")
       \/ /\ Returned(r, "throw")
          /\ Catch(r)
          /\ UNCHANGED loc
    /\ UNCHANGED <<storeVars, legacyVars, loginVars, body, failed, rbIdx, swallowed>>

\* The insert into 'users' returns; the handler branches on client_type.
FirstInsertUserReturn(r) ==
    /\ pc[r] = "insertUser"
    /\ \/ /\ users' = users \cup {UserRow(r)}
          /\ Returned(r, "ok")
          /\ loc' = [loc EXCEPT ![r].user_id = Id("users", r)]
          /\ IF body[r].client_type = "individual"
             THEN Issue(r, Call("insert", "contacts", Null), "insertContactInd")
             ELSE Issue(r, Call("insert", "companies", Null), "insertCompany")
       \/ /\ Returned(r, "error")
          /\ Respond400(r, ErrMsg("insert", "users"))
          /\ UNCHANGED <<users, loc>>
       \/ /\ Returned(r, "throw")
          /\ Catch(r)
          /\ UNCHANGED <<users, loc>>
    /\ UNCHANGED <<auth, clients, contacts, companies, contact_company,
                   legacyVars, loginVars, body, failed, rbIdx, swallowed>>

\* The row of the insert into 'contacts' (both flows).
FirstContactRow(r) ==
    [id |-> Id("contacts", r),
     client_id |-> loc[r].client_id,
     full_name |-> body[r].full_name,
     phone |-> body[r].phone,
     email |-> body[r].email,
     responsible_id |-> loc[r].user_id]

\* Individual flow: the insert into 'contacts' returns.
FirstInsertContactIndReturn(r) ==
    /\ pc[r] = "insertContactInd"
    /\ \/ /\ contacts' = contacts \cup {FirstContactRow(r)}
          /\ Returned(r, "ok")
          /\ Respond(r, [status |-> 201, message |-> MsgCreatedFirst])
       \/ /\ Returned(r, "error")
          /\ Respond400(r, ErrMsg("insert", "contacts"))
          /\ UNCHANGED contacts
       \/ /\ Returned(r, "throw")
          /\ Catch(r)
          /\ UNCHANGED contacts
    /\ UNCHANGED <<auth, clients, users, companies, contact_company,
                   legacyVars, loginVars, body, loc, failed, rbIdx, swallowed>>

\* The row of the insert into 'companies'.
FirstCompanyRow(r) ==
    [id |-> Id("companies", r),
     client_id |-> loc[r].client_id,
     name |-> Field(body[r], "company_name"),
     cnpj |-> body[r].document,
     responsible_id |-> loc[r].user_id]

\* Company flow: the insert into 'companies' returns.
FirstInsertCompanyReturn(r) ==
    /\ pc[r] = "insertCompany"
    /\ \/ /\ companies' = companies \cup {FirstCompanyRow(r)}
          /\ Returned(r, "ok")
          /\ loc' = [loc EXCEPT ![r].companyId = Id("companies", r)]
          /\ Issue(r, Call("insert", "contacts", Null), "insertContact")
       \/ /\ Returned(r, "error")
          /\ Respond400(r, ErrMsg("insert", "companies"))
          /\ UNCHANGED <<companies, loc>>
       \/ /\ Returned(r, "throw")
          /\ Catch(r)
          /\ UNCHANGED <<companies, loc>>
    /\ UNCHANGED <<auth, clients, users, contacts, contact_company,
                   legacyVars, loginVars, body, failed, rbIdx, swallowed>>

\* Company flow: the insert into 'contacts' returns.
FirstInsertContactReturn(r) ==
    /\ pc[r] = "insertContact"
    /\ \/ /\ contacts' = contacts \cup {FirstContactRow(r)}
          /\ Returned(r, "ok")
          /\ loc' = [loc EXCEPT ![r].contactId = Id("contacts", r)]
          /\ Issue(r, Call("insert", "contact_company", Null), "insertLink")
       \/ /\ Returned(r, "error")
          /\ Respond400(r, ErrMsg("insert", "contacts"))
          /\ UNCHANGED <<contacts, loc>>
       \/ /\ Returned(r, "throw")
          /\ Catch(r)
          /\ UNCHANGED <<contacts, loc>>
    /\ UNCHANGED <<auth, clients, users, companies, contact_company,
                   legacyVars, loginVars, body, failed, rbIdx, swallowed>>

\* Company flow: the insert into 'contact_company' returns.
FirstInsertLinkReturn(r) ==
    /\ pc[r] = "insertLink"
    /\ \/ /\ contact_company' = contact_company \cup {LinkRow(r)}
          /\ Returned(r, "ok")
          /\ Respond(r, [status |-> 201, message |-> MsgCreatedFirst])
       \/ /\ Returned(r, "error")
          /\ Respond400(r, ErrMsg("insert", "contact_company"))
          /\ UNCHANGED contact_company
       \/ /\ Returned(r, "throw")
          /\ Catch(r)
          /\ UNCHANGED contact_company
    /\ UNCHANGED <<auth, clients, users, contacts, companies,
                   legacyVars, loginVars, body, loc, failed, rbIdx, swallowed>>

FirstOnboarding(r) ==
    \/ FirstReceive(r)
    \/ FirstCreateUserReturn(r)
    \/ FirstInsertClientReturn(r)
    \/ FirstHashReturn(r)
    \/ FirstInsertUserReturn(r)
    \/ FirstInsertContactIndReturn(r)
    \/ FirstInsertCompanyReturn(r)
    \/ FirstInsertContactReturn(r)
    \/ FirstInsertLinkReturn(r)

(* POST /login, Identity Provider variant.  The handler has no try/catch; a
   call that throws leaves the request unanswered and is not modelled. *)

LoginEmails == {<<"a", "@", "x">>, <<"c", "@", "x">>}
LoginPasswords == {<<"p", "w">>, <<"q">>}

\* The bodies of a login: the registered email with the right and with a
\* wrong password, an email no onboarding uses, and bodies that lack a field.
LoginBodies ==
    { [email |-> <<"a", "@", "x">>, password |-> p] : p \in LoginPasswords }
    \cup { [email |-> <<"c", "@", "x">>, password |-> <<"p", "w">>],
           [email |-> <<>>, password |-> <<"p", "w">>],
           [email |-> <<"a", "@", "x">>] }

\* data.session.access_token of a sign-in as the identity id.
Token(id) == <<"token", id>>

LoginRespond(l, response) ==
    /\ loginRes' = [loginRes EXCEPT ![l] = response]
    /\ loginPc' = [loginPc EXCEPT ![l] = "done"]

\* The onboarding requests that were answered 201 for these credentials.
OnboardedWith(b) ==
    {r \in DOMAIN pc :
        /\ res[r].status = 201
        /\ body[r].email = Field(b, "email")
        /\ body[r].password = Field(b, "password")}

\* The request arrives: both fields are required, then signInWithPassword.
LoginReceive(l) ==
    /\ loginPc[l] = "idle"
    /\ \E b \in LoginBodies :
        /\ loginBody' = [loginBody EXCEPT ![l] = b]
        /\ loginAfter' = [loginAfter EXCEPT ![l] = OnboardedWith(b)]
        /\ IF ~Truthy(b, "email") \/ ~Truthy(b, "password")
           THEN /\ LoginRespond(l, [status |-> 400, error |-> MsgLoginRequired])
                /\ loginCalls' = loginCalls
           ELSE /\ loginCalls' = [loginCalls EXCEPT
                                    ![l] = Append(@, Call("signInWithPassword", "auth", Null))]
                /\ loginPc' = [loginPc EXCEPT ![l] = "signIn"]
                /\ loginRes' = loginRes
    /\ UNCHANGED <<storeVars, reqVars, legacyVars, loginData, loginRets>>

\* Mutant: an unknown email is told apart from a wrong password.
SignInFailureRevealing(out) ==
    IF out = "unknown"
    THEN [status |-> 404, error |-> MsgUserNotFound]
    ELSE [status |-> 401, error |-> MsgInvalidCredentials]

\* if (error) return res.status(401).json({ error: 'Invalid credentials.' })
SignInFailure(out) == [status |-> 401, error |-> MsgInvalidCredentials]

\* signInWithPassword returns: a session when a confirmed identity holds the
\* email and the password; else an error, recorded as "unknown" when no
\* identity holds the email and as "wrong" when one does; or an error of
\* another cause.  On a session the handler looks the email up in 'users'.
SignInReturn(l) ==
    /\ loginPc[l] = "signIn"
    /\ LET b == loginBody[l]
           known == {a \in auth : a.email = b.email}
           valid == {a \in known : a.password = b.password /\ a.email_confirm}
       IN  \/ /\ valid # {}
              /\ loginRets' = [loginRets EXCEPT ![l] = Append(@, "ok")]
              /\ loginData' = [loginData EXCEPT ![l] =
                                [session |-> [access_token |->
                                                Token((CHOOSE a \in valid : TRUE).id)]]]
              /\ loginCalls' = [loginCalls EXCEPT
                                  ![l] = Append(@, Call("select", "users", Null))]
              /\ loginPc' = [loginPc EXCEPT ![l] = "selectUser"]
              /\ loginRes' = loginRes
           \/ /\ valid = {}
              /\ \E out \in {IF known = {} THEN "unknown" ELSE "wrong"} :
                    /\ loginRets' = [loginRets EXCEPT ![l] = Append(@, out)]
                    /\ LoginRespond(l, SignInFailure(out))
              /\ UNCHANGED <<loginData, loginCalls>>
           \/ /\ loginRets' = [loginRets EXCEPT ![l] = Append(@, "error")]
              /\ LoginRespond(l, SignInFailure("error"))
              /\ UNCHANGED <<loginData, loginCalls>>
    /\ UNCHANGED <<storeVars, reqVars, legacyVars, loginBody, loginAfter>>

\* .from('users').select('*').eq('email', email).single() returns: the row
\* when exactly one row has the email, an error otherwise.
SelectUserReturn(l) ==
    /\ loginPc[l] = "selectUser"
    /\ LET rows == {u \in users : u.email = loginBody[l].email}
       IN  \/ /\ Cardinality(rows) = 1
              /\ loginRets' = [loginRets EXCEPT ![l] = Append(@, "ok")]
              /\ LoginRespond(l, [status |-> 200,
                                  token |-> loginData[l].session.access_token,
                                  user |-> CHOOSE u \in rows : TRUE])
           \/ /\ Cardinality(rows) # 1
              /\ loginRets' = [loginRets EXCEPT ![l] = Append(@, "norow")]
              /\ LoginRespond(l, [status |-> 401, error |-> MsgUserNotFound])
           \/ /\ loginRets' = [loginRets EXCEPT ![l] = Append(@, "error")]
              /\ LoginRespond(l, [status |-> 401, error |-> MsgUserNotFound])
    /\ UNCHANGED <<storeVars, reqVars, legacyVars, loginBody, loginData,
                   loginCalls, loginAfter>>

Login(l) ==
    \/ LoginReceive(l)
    \/ SignInReturn(l)
    \/ SelectUserReturn(l)

InitFirst ==
    /\ auth = {} /\ clients = {} /\ users = {} /\ contacts = {}
    /\ companies = {} /\ contact_company = {}
    /\ InitRequests(Reqs)

NextFirst ==
    \/ \E r \in {FirstReq} : FirstOnboarding(r)
    \/ \E l \in Logins : Login(l)

SpecFirst == InitFirst /\ [][NextFirst]_vars

-----------------------------------------------------------------------------
(* The fourth revision (src/index.js, lines 508-678): POST /onboarding with
   normalization, the Client inserted before the identity is created, and no
   rollback. *)

MsgCreatedFourth == "Cadastro realizado com sucesso! Enviamos um e-mail para confirmação."

\* The request arrives: validation by type, normalization, then the insert
\* into 'clients'.
FourthReceive(r) ==
    /\ pc[r] = "idle"
    /\ \E b \in Payloads :
        /\ body' = [body EXCEPT ![r] = b]
        /\ IF Validate(b) # "ok"
           THEN /\ Respond400(r, Validate(b))
                /\ loc' = loc
           ELSE /\ loc' = [loc EXCEPT ![r].normalizedDocument = onlyDigits(Field(b, "document")),
                                      ![r].normalizedPhone = normalizePhone(Field(b, "phone"))]
                /\ Issue(r, Call("insert", "clients", Null), "insertClient")
    /\ UNCHANGED <<storeVars, legacyVars, loginVars, failed, rbIdx, rets, swallowed>>

\* The insert into 'clients' returns; on success the handler creates the
\* identity.
FourthInsertClientReturn(r) ==
    /\ pc[r] = "insertClient"
    /\ \/ /\ clients' = clients \cup {ClientRow(r)}
          /\ Returned(r, "ok")
          /\ loc' = [loc EXCEPT ![r].client_id = Id("clients", r)]
          /\ Issue(r, Call("createUser", "auth", Null), "createUser")
       \/ /\ Returned(r, "error")
          /\ Respond400(r, ErrMsg("insert", "clients"))
          /\ UNCHANGED <<clients, loc>>
       \/ /\ Returned(r, "throw")
          /\ Catch(r)
          /\ UNCHANGED <<clients, loc>>
    /\ UNCHANGED <<auth, users, contacts, companies, contact_company,
                   legacyVars, loginVars, body, failed, rbIdx, swallowed>>

\* The auth identity of createUser({ email, password, email_confirm: false,
\* app_metadata: { client_id }, user_metadata: { full_name } }).
FourthAuthRow(r) ==
    [id |-> Id("auth", r), email |-> body[r].email, password |-> body[r].password,
     email_confirm |-> FALSE,
     user_metadata |-> body[r].full_name, app_metadata |-> loc[r].client_id]

\* supabase.auth.admin.createUser returns; on success the handler awaits
\* bcrypt.hash.
FourthCreateUserReturn(r) ==
    /\ pc[r] = "createUser"
    /\ \/ \* a new identity: the provider holds at most one per email
          /\ \A a \in auth : a.email # body[r].email
          /\ auth' = auth \cup {FourthAuthRow(r)}
          /\ Returned(r, "ok")
          /\ loc' = [loc EXCEPT ![r].authUserId = Id("auth", r)]
          /\ Issue(r, Call("hash", "bcrypt", Null), "hash")
       \/ \* the email is registered already
          /\ \E a \in auth : a.email = body[r].email
          /\ Returned(r, "error")
          /\ Respond400(r, MsgEmailExists)
          /\ UNCHANGED <<auth, loc>>
       \/ \* any other error value
          /\ Returned(r, "error")
          /\ Respond400(r, ErrMsg("createUser", "auth"))
          /\ UNCHANGED <<auth, loc>>
       \/ \* the call throws
          /\ Returned(r, "throw")
          /\ Catch(r)
          /\ UNCHANGED <<auth, loc>>
    /\ UNCHANGED <<clients, users, contacts, companies, contact_company,
                   legacyVars, loginVars, body, failed, rbIdx, swallowed>>

\* The insert into 'users' returns; the handler branches on client_type.
FourthInsertUserReturn(r) ==
    /\ pc[r] = "insertUser"
    /\ \/ /\ users' = users \cup {UserRow(r)}
          /\ Returned(r, "ok")
          /\ loc' = [loc EXCEPT ![r].user_id = Id("users", r)]
          /\ IF body[r].client_type = "individual"
             THEN Issue(r, Call("insert", "contacts", Null), "insertContactInd")
             ELSE Issue(r, Call("insert", "companies", Null), "insertCompany")
       \/ /\ Returned(r, "error")
          /\ Respond400(r, ErrMsg("insert", "users"))
          /\ UNCHANGED <<users, loc>>
       \/ /\ Returned(r, "throw")
          /\ Catch(r)
          /\ UNCHANGED <<users, loc>>
    /\ UNCHANGED <<auth, clients, contacts, companies, contact_company,
                   legacyVars, loginVars, body, failed, rbIdx, swallowed>>

\* Individual flow: the insert into 'contacts' returns.
FourthInsertContactIndReturn(r) ==
    /\ pc[r] = "insertContactInd"
    /\ \/ /\ contacts' = contacts \cup {ContactRow(r)}
          /\ Returned(r, "ok")
          /\ Respond(r, [status |-> 201, message |-> MsgCreatedFourth,
                         client_id |-> loc[r].client_id, user_id |-> loc[r].user_id])
       \/ /\ Returned(r, "error")
          /\ Respond400(r, ErrMsg("insert", "contacts"))
          /\ UNCHANGED contacts
       \/ /\ Returned(r, "throw")
          /\ Catch(r)
          /\ UNCHANGED contacts
    /\ UNCHANGED <<auth, clients, users, companies, contact_company,
                   legacyVars, loginVars, body, loc, failed, rbIdx, swallowed>>

\* Company flow: the insert into 'companies' returns.
FourthInsertCompanyReturn(r) ==
    /\ pc[r] = "insertCompany"
    /\ \/ /\ companies' = companies \cup {CompanyRow(r)}
          /\ Returned(r, "ok")
          /\ loc' = [loc EXCEPT ![r].companyId = Id("companies", r)]
          /\ Issue(r, Call("insert", "contacts", Null), "insertContact")
       \/ /\ Returned(r, "error")
          /\ Respond400(r, ErrMsg("insert", "companies"))
          /\ UNCHANGED <<companies, loc>>
       \/ /\ Returned(r, "throw")
          /\ Catch(r)
          /\ UNCHANGED <<companies, loc>>
    /\ UNCHANGED <<auth, clients, users, contacts, contact_company,
                   legacyVars, loginVars, body, failed, rbIdx, swallowed>>

\* Company flow: the insert into 'contacts' returns.
FourthInsertContactReturn(r) ==
    /\ pc[r] = "insertContact"
    /\ \/ /\ contacts' = contacts \cup {ContactRow(r)}
          /\ Returned(r, "ok")
          /\ loc' = [loc EXCEPT ![r].contactId = Id("contacts", r)]
          /\ Issue(r, Call("insert", "contact_company", Null), "insertLink")
       \/ /\ Returned(r, "error")
          /\ Respond400(r, ErrMsg("insert", "contacts"))
          /\ UNCHANGED <<contacts, loc>>
       \/ /\ Returned(r, "throw")
          /\ Catch(r)
          /\ UNCHANGED <<contacts, loc>>
    /\ UNCHANGED <<auth, clients, users, companies, contact_company,
                   legacyVars, loginVars, body, failed, rbIdx, swallowed>>

\* Company flow: the insert into 'contact_company' returns.
FourthInsertLinkReturn(r) ==
    /\ pc[r] = "insertLink"
    /\ \/ /\ contact_company' = contact_company \cup {LinkRow(r)}
          /\ Returned(r, "ok")
          /\ Respond(r, [status |-> 201, message |-> MsgCreatedFourth,
                         client_id |-> loc[r].client_id, user_id |-> loc[r].user_id,
                         company_id |-> loc[r].companyId, contact_id |-> loc[r].contactId])
       \/ /\ Returned(r, "error")
          /\ Respond400(r, ErrMsg("insert", "contact_company"))
          /\ UNCHANGED contact_company
       \/ /\ Returned(r, "throw")
          /\ Catch(r)
          /\ UNCHANGED contact_company
    /\ UNCHANGED <<auth, clients, users, contacts, companies,
                   legacyVars, loginVars, body, loc, failed, rbIdx, swallowed>>

\* bcrypt.hash is awaited as in the first revision.
FourthOnboarding(r) ==
    \/ FourthReceive(r)
    \/ FourthInsertClientReturn(r)
    \/ FourthCreateUserReturn(r)
    \/ FirstHashReturn(r)
    \/ FourthInsertUserReturn(r)
    \/ FourthInsertContactIndReturn(r)
    \/ FourthInsertCompanyReturn(r)
    \/ FourthInsertContactReturn(r)
    \/ FourthInsertLinkReturn(r)

NextFourth == \E r \in Reqs : FourthOnboarding(r)

SpecFourth == Init /\ [][NextFourth]_vars

-----------------------------------------------------------------------------
(* The onboarding of src/unnamed/part_000 (lines 24-113): one required-field
   check for both client types, createUser, the inserts into 'clients' and
   'users' as in the first revision, then one insert into 'contacts' or into
   'companies'; no normalization and no rollback. *)

MsgMissingFields == "Missing required fields."
MsgRegistered == "Registration successful! Please check your email for confirmation."

\* The required-field check and the client_type check: "ok", or the message
\* of the 400 response.
EarlyValidate(b) ==
    IF \/ "client_type" \notin DOMAIN b
       \/ ~Truthy(b, "full_name") \/ ~Truthy(b, "document") \/ ~Truthy(b, "email")
       \/ ~Truthy(b, "password") \/ ~Truthy(b, "phone")
    THEN MsgMissingFields
    ELSE IF b.client_type # "individual" /\ b.client_type # "company"
    THEN MsgInvalidType
    ELSE "ok"

\* The request arrives: the two checks, then createUser.
EarlyReceive(r) ==
    /\ pc[r] = "idle"
    /\ \E b \in Payloads :
        /\ body' = [body EXCEPT ![r] = b]
        /\ IF EarlyValidate(b) # "ok"
           THEN Respond400(r, EarlyValidate(b))
           ELSE Issue(r, Call("createUser", "auth", Null), "createUser")
    /\ UNCHANGED <<storeVars, legacyVars, loginVars, loc, failed, rbIdx, rets, swallowed>>

\* Individual: the insert into 'contacts' returns.
EarlyInsertContactReturn(r) ==
    /\ pc[r] = "insertContactInd"
    /\ \/ /\ contacts' = contacts \cup {FirstContactRow(r)}
          /\ Returned(r, "ok")
          /\ Respond(r, [status |-> 201, message |-> MsgRegistered])
       \/ /\ Returned(r, "error")
          /\ Respond400(r, ErrMsg("insert", "contacts"))
          /\ UNCHANGED contacts
       \/ /\ Returned(r, "throw")
          /\ Catch(r)
          /\ UNCHANGED contacts
    /\ UNCHANGED <<auth, clients, users, companies, contact_company,
                   legacyVars, loginVars, body, loc, failed, rbIdx, swallowed>>

\* The row of the insert into 'companies': company_name || full_name.
EarlyCompanyRow(r) ==
    [id |-> Id("companies", r),
     client_id |-> loc[r].client_id,
     company_name |-> IF Truthy(body[r], "company_name")
                      THEN body[r].company_name ELSE body[r].full_name,
     document |-> body[r].document,
     responsible_id |-> loc[r].user_id]

\* Company: the insert into 'companies' returns.
EarlyInsertCompanyReturn(r) ==
    /\ pc[r] = "insertCompany"
    /\ \/ /\ companies' = companies \cup {EarlyCompanyRow(r)}
          /\ Returned(r, "ok")
          /\ Respond(r, [status |-> 201, message |-> MsgRegistered])
       \/ /\ Returned(r, "error")
          /\ Respond400(r, ErrMsg("insert", "companies"))
          /\ UNCHANGED companies
       \/ /\ Returned(r, "throw")
          /\ Catch(r)
          /\ UNCHANGED companies
    /\ UNCHANGED <<auth, clients, users, contacts, contact_company,
                   legacyVars, loginVars, body, loc, failed, rbIdx, swallowed>>

\* createUser, the inserts into 'clients' and 'users' and bcrypt.hash are
\* the first revision's.
EarlyOnboarding(r) ==
    \/ EarlyReceive(r)
    \/ FirstCreateUserReturn(r)
    \/ FirstInsertClientReturn(r)
    \/ FirstHashReturn(r)
    \/ FirstInsertUserReturn(r)
    \/ EarlyInsertContactReturn(r)
    \/ EarlyInsertCompanyReturn(r)

NextEarly == \E r \in Reqs : EarlyOnboarding(r)

SpecEarly == Init /\ [][NextEarly]_vars

-----------------------------------------------------------------------------
(* Vocabulary of the properties *)

Done(r) == pc[r] = "done"

TypeOf(r) == Field(body[r], "client_type")

\* The records of request r that the store holds.
HasAuth(r) == \E a \in auth : a.id = Id("auth", r)
HasClient(r) == \E c \in clients : c.id = Id("clients", r)
HasUser(r) == \E u \in users : u.id = Id("users", r)
HasContact(r) == \E c \in contacts : c.id = Id("contacts", r)
HasCompany(r) == \E c \in companies : c.id = Id("companies", r)
HasLink(r) ==
    \E l \in contact_company :
        l.contact_id = Id("contacts", r) \/ l.company_id = Id("companies", r)

FullSet(r) ==
    /\ HasAuth(r) /\ HasClient(r) /\ HasUser(r) /\ HasContact(r)
    /\ TypeOf(r) = "company" => HasCompany(r) /\ HasLink(r)

NoneOf(r) ==
    ~HasAuth(r) /\ ~HasClient(r) /\ ~HasUser(r)
    /\ ~HasContact(r) /\ ~HasCompany(r) /\ ~HasLink(r)

IsDelete(call) == call.op \in {"delete", "deleteUser"}

\* Positions in the call log of request r.
Returns(r) == 1..Len(rets[r])
DeleteIdx(r) == {i \in 1..Len(calls[r]) : IsDelete(calls[r][i])}
CreateIdx(r, t) ==
    {i \in 1..Len(calls[r]) :
        /\ calls[r][i].target = t
        /\ calls[r][i].op \in {"signUp", "insert"}}

\* The tables in which a create of request r succeeded.
Created(r) == {t \in {"auth", "clients", "users", "contacts", "companies", "contact_company"} :
                  \E i \in CreateIdx(r, t) \cap Returns(r) : rets[r][i] = "ok"}

\* Every delete that request r issued and that returned, succeeded.
DeletesAllOk(r) == \A i \in DeleteIdx(r) \cap Returns(r) : rets[r][i] = "ok"

\* Every call of request r returned without error and without exception.
AllCallsOk(r) == \A i \in Returns(r) : rets[r][i] = "ok"

\* The calls of request r that returned an error value (a delete's error
\* value is recorded as "failed").
ErrorIdx(r) == {i \in Returns(r) : rets[r][i] = "error"}

\* The handler of request r issued a delete of its record in table t.
DeleteIssued(r, t) ==
    \E i \in DeleteIdx(r) : calls[r][i].target = t /\ calls[r][i].id = Id(t, r)

\* What the claims call a payload that lacks a required field.
Required(t) ==
    {"full_name", "document", "email", "password", "phone"}
    \cup (IF t = "company" THEN {"company_name"} ELSE {})

Lacks(b) ==
    \/ "client_type" \notin DOMAIN b
    \/ b.client_type \notin {"individual", "company"}
    \/ \E k \in Required(b.client_type) : k \notin DOMAIN b \/ b[k] = <<>>

-----------------------------------------------------------------------------
(* C1: all-or-nothing onboarding.  Once a request has been answered, and
   provided every rollback delete it issued succeeded, either the full record
   set of its client type exists or none of the records it created exists,
   whichever step failed and whether it returned an error or threw.
   The handler's outer catch issues no delete, so this fails. *)
C1_AllOrNothing ==
    \A r \in Reqs : Done(r) /\ DeletesAllOk(r) => FullSet(r) \/ NoneOf(r)

(* C2: rollback completeness per step.  When a step returned an error value
   and the request has been answered, a delete was issued for every record
   the earlier steps created; and if all those deletes succeeded, no record of
   the request is left. *)
C2_RollbackComplete ==
    \A r \in Reqs :
        Done(r) /\ failed[r] # "none" =>
            /\ \A t \in Created(r) : DeleteIssued(r, t)
            /\ DeletesAllOk(r) => NoneOf(r)

\* The Contact insert failed in the company flow after the Company was
\* created, every delete succeeded, and nothing is left.
C2_Witness ==
    \E r \in Reqs :
        /\ Done(r) /\ failed[r] = "contacts" /\ TypeOf(r) = "company"
        /\ "companies" \in Created(r) /\ "users" \in Created(r)
        /\ DeletesAllOk(r) /\ NoneOf(r)

(* C3: pre-flight validation.  A payload whose client_type is neither
   'individual' nor 'company', or that lacks (missing or empty) a field its
   type requires, is answered 400 with a validation message and the handler
   issues no call to the Identity Provider, the Record Store or the hasher. *)
C3_Validation ==
    \A r \in Reqs :
        body[r] # NoBody /\ Lacks(body[r]) =>
            /\ Done(r)
            /\ res[r].status = 400
            /\ res[r].error \in {MsgMissingIndividual, MsgMissingCompany, MsgInvalidType}
            /\ calls[r] = <<>>

\* A company payload without company_name was rejected.
C3_Witness ==
    \E r \in Reqs :
        /\ body[r] # NoBody /\ TypeOf(r) = "company"
        /\ "company_name" \notin DOMAIN body[r]
        /\ res[r].status = 400 /\ calls[r] = <<>>

(* C4: individual success path.  An individual request whose calls all
   succeeded created exactly one AuthIdentity, Client, User and Contact, no
   Company and no ContactCompany, and issued no delete. *)
C4_IndividualSuccess ==
    \A r \in Reqs :
        Done(r) /\ TypeOf(r) = "individual" /\ ~Lacks(body[r]) /\ AllCallsOk(r) =>
            /\ \A t \in {"auth", "clients", "users", "contacts"} :
                  Cardinality(CreateIdx(r, t)) = 1
            /\ HasAuth(r) /\ HasClient(r) /\ HasUser(r) /\ HasContact(r)
            /\ CreateIdx(r, "companies") = {} /\ CreateIdx(r, "contact_company") = {}
            /\ ~HasCompany(r) /\ ~HasLink(r)
            /\ DeleteIdx(r) = {}

C4_Witness ==
    \E r \in Reqs :
        /\ Done(r) /\ TypeOf(r) = "individual" /\ ~Lacks(body[r]) /\ AllCallsOk(r)
        /\ res[r].status = 201 /\ HasContact(r)

(* C5: company success path.  A company request whose calls all succeeded
   created exactly one AuthIdentity, Client, User, Company, Contact and
   ContactCompany, and the ContactCompany row joins the Contact and the
   Company this request created. *)
C5_CompanySuccess ==
    \A r \in Reqs :
        Done(r) /\ TypeOf(r) = "company" /\ ~Lacks(body[r]) /\ AllCallsOk(r) =>
            /\ \A t \in {"auth", "clients", "users", "companies", "contacts",
                         "contact_company"} :
                  Cardinality(CreateIdx(r, t)) = 1
            /\ HasAuth(r) /\ HasClient(r) /\ HasUser(r)
            /\ HasCompany(r) /\ HasContact(r)
            /\ {l \in contact_company :
                    l.contact_id = Id("contacts", r) \/ l.company_id = Id("companies", r)}
               = {[contact_id |-> Id("contacts", r), company_id |-> Id("companies", r)]}

C5_Witness ==
    \E r \in Reqs :
        /\ Done(r) /\ TypeOf(r) = "company" /\ ~Lacks(body[r]) /\ AllCallsOk(r)
        /\ res[r].status = 201 /\ HasLink(r)

\* The message of the error value that call c returned.
ErrorMessages(c) ==
    IF c.op = "signUp"
    THEN {ErrMsg("signUp", "auth"), MsgAlreadyRegistered}
    ELSE {ErrMsg(c.op, c.target)}

(* C6: the original error is surfaced.  When a step returned an error value,
   the response is 400 with exactly that step's message, whether the rollback
   deletes that followed succeeded, returned an error or threw. *)
C6_OriginalError ==
    \A r \in Reqs :
        Done(r) =>
            \A i \in ErrorIdx(r) :
                /\ res[r].status = 400
                /\ res[r].error \in ErrorMessages(calls[r][i])
                /\ DOMAIN res[r] = {"status", "error"}

\* The link insert failed, rollback deletes both returned an error and threw,
\* and the response carries the link insert's message.
C6_Witness ==
    \E r \in Reqs :
        /\ Done(r) /\ failed[r] = "contact_company"
        /\ swallowed[r] = {"error", "throw"}
        /\ res[r] = [status |-> 400, error |-> ErrMsg("insert", "contact_company")]

(* C7: independent best-effort rollback actions.  Every delete of a rollback
   sequence is attempted whatever the earlier deletes of the sequence did, and
   no exception of a delete reaches the outer catch: once a rollback has
   begun, the request ends with one delete per record it created and with
   the 400 response, never with 500. *)
C7_BestEffort ==
    \A r \in Reqs :
        failed[r] # "none" =>
            /\ res[r].status \in {0, 400}
            /\ Done(r) =>
                  /\ \A t \in Created(r) : DeleteIssued(r, t)
                  /\ Cardinality(DeleteIdx(r)) = Cardinality(Created(r))
                  /\ DeleteIdx(r) \subseteq Returns(r)

\* The first delete of the link rollback threw, the other four were issued
\* after it and succeeded.
C7_Witness ==
    \E r \in Reqs :
        /\ Done(r) /\ failed[r] = "contact_company"
        /\ swallowed[r] = {"throw"}
        /\ Cardinality(DeleteIdx(r)) = 5
        /\ Cardinality({i \in DeleteIdx(r) : rets[r][i] = "failed"}) = 1
        /\ \A i \in DeleteIdx(r) : rets[r][i] = "failed" => calls[r][i].target = "contacts"

\* The position of the create of request r's record in table t.
CreatedAt(r, t) == CHOOSE i \in CreateIdx(r, t) : TRUE

(* C8, as claimed: the records are deleted in reverse creation order, so the
   AuthIdentity, created first, is deleted last.  The rollback blocks delete
   the AuthIdentity before the User and the Client, so this fails. *)
C8_ReverseCreationOrder ==
    \A r \in Reqs :
        \A i, j \in DeleteIdx(r) :
            i < j => CreatedAt(r, calls[r][i].target) > CreatedAt(r, calls[r][j].target)

\* The order in which the rollback blocks delete.
DeleteRank(t) ==
    CASE t = "contacts" -> 1
      [] t = "companies" -> 2
      [] t = "auth" -> 3
      [] t = "users" -> 4
      [] t = "clients" -> 5

(* C8, amended: the records created by steps 1..k-1 are deleted in the order
   contact, company, auth identity, user, client: the business rows in
   reverse creation order, then the AuthIdentity before the User and the
   Client rows that reference it, and the Client row last. *)
C8_RollbackOrder ==
    \A r \in Reqs :
        \A i, j \in DeleteIdx(r) :
            i < j => DeleteRank(calls[r][i].target) < DeleteRank(calls[r][j].target)

\* The link insert failed and all five records were deleted.
C8_Witness ==
    \E r \in Reqs :
        /\ Done(r) /\ failed[r] = "contact_company"
        /\ Cardinality(DeleteIdx(r)) = 5 /\ NoneOf(r)

(* C9: response shape.  Every response is 201 with the generated identifiers
   (client_id and user_id, and for a company company_id and contact_id),
   sent only when the full record set was created; or 400 with a single error
   string, for a validation failure or a step that failed; or 500 with the
   fixed string, for a thrown exception.  No 400 or 500 carries an
   identifier. *)
C9_ResponseShape ==
    \A r \in Reqs :
        Done(r) =>
            \/ /\ res[r].status = 201
               /\ DOMAIN res[r] =
                    {"status", "message", "client_id", "user_id"}
                    \cup (IF TypeOf(r) = "company"
                          THEN {"company_id", "contact_id"} ELSE {})
               /\ res[r].client_id = Id("clients", r)
               /\ res[r].user_id = Id("users", r)
               /\ TypeOf(r) = "company" =>
                    /\ res[r].company_id = Id("companies", r)
                    /\ res[r].contact_id = Id("contacts", r)
               /\ FullSet(r) /\ AllCallsOk(r)
            \/ /\ res[r].status = 400
               /\ DOMAIN res[r] = {"status", "error"}
               /\ \/ Lacks(body[r]) /\ calls[r] = <<>>
                  \/ \E i \in Returns(r) : rets[r][i] \in {"error", "nouser"}
            \/ /\ res[r].status = 500
               /\ res[r] = [status |-> 500, error |-> MsgInternal]
               /\ rets[r][Len(rets[r])] = "throw"

\* A company request was answered 201 with its four identifiers.
C9_Witness ==
    \E r \in Reqs :
        /\ Done(r) /\ res[r].status = 201 /\ TypeOf(r) = "company"
        /\ res[r].company_id = Id("companies", r)
        /\ res[r].contact_id = Id("contacts", r)

-----------------------------------------------------------------------------
(* C10: undifferentiated login failure, self-hosted-hash variant.  A login
   with an email that has no 'usuarios' row and a login with an existing
   email and a wrong password get the same status and the same message.
   The handler answers 400 'Usuário não encontrado' to the first and
   401 'Senha inválida' to the second, so this fails. *)
C10_UndifferentiatedLogin ==
    \A a, b \in legacyRes :
        /\ a.route = "login" /\ b.route = "login"
        /\ a.email # <<>> /\ a.password # <<>> /\ ~a.found
        /\ b.email # <<>> /\ b.password # <<>> /\ b.found /\ ~b.match
        => a.status = b.status /\ a.error = b.error

-----------------------------------------------------------------------------
\* The email of request r is the email of a record set that was registered
\* before the request, and signUp returned the provider's conflict.
ConflictAtSignUp(r) ==
    /\ Len(rets[r]) >= 1 /\ rets[r][1] = "error"
    /\ \E a \in PriorAuth : a.email = Field(body[r], "email")

\* The insert into 'clients' of request r returned an error value (of which
\* the uniqueness conflict is one).
ConflictAtClientInsert(r) == failed[r] = "clients"

\* The records that existed before the requests are in the store as they
\* were.
PriorUnchanged ==
    /\ {a \in auth : a.id = Id("auth", 0)} = PriorAuth
    /\ {c \in clients : c.id = Id("clients", 0)} = PriorClients
    /\ {u \in users : u.id = Id("users", 0)} = PriorUsers
    /\ {c \in contacts : c.id = Id("contacts", 0)} = PriorContacts

(* C13: duplicate email is a client-facing rejection.  A request that hit a
   uniqueness conflict on its email, at signUp or at the insert into
   'clients', is answered 400 with the collaborator's message and never 500;
   the deletes it issued name its own records only, and the AuthIdentity,
   Client, User and Contact registered before it are unchanged. *)
C13_DuplicateEmail ==
    \A r \in Reqs :
        /\ ConflictAtSignUp(r) =>
              /\ Done(r)
              /\ res[r].status = 400
              /\ res[r].error \in ErrorMessages(calls[r][1])
              /\ calls[r] = <<Call("signUp", "auth", Null)>>
              /\ PriorUnchanged
        /\ ConflictAtClientInsert(r) =>
              /\ res[r].status \in {0, 400}
              /\ \A i \in DeleteIdx(r) : calls[r][i].id = Id(calls[r][i].target, r)
              /\ PriorUnchanged
              /\ Done(r) => res[r] = [status |-> 400, error |-> ErrMsg("insert", "clients")]

\* A request for the registered email was rejected by signUp and the
\* registered identity is still there.
C13_Witness ==
    \E r \in Reqs :
        /\ Done(r) /\ ConflictAtSignUp(r)
        /\ res[r].status = 400
        /\ PriorAuth \subseteq auth

-----------------------------------------------------------------------------
\* Request r is an individual's complete payload that also carries a
\* company_name.
IndividualWithCompanyName(r) ==
    /\ body[r] # NoBody /\ ~Lacks(body[r])
    /\ TypeOf(r) = "individual" /\ Truthy(body[r], "company_name")

(* C14: Client organization-name invariant.  Every row of 'clients' has
   company_name non-null exactly when its client_type is 'company'; a
   company_name sent for an individual passes the validation, and the Client
   row of that request holds null. *)
C14_CompanyNameInvariant ==
    /\ \A c \in clients : (c.company_name # Null) <=> (c.client_type = "company")
    /\ \A r \in Reqs :
          IndividualWithCompanyName(r) =>
              /\ calls[r] # <<>>
              /\ Done(r) /\ AllCallsOk(r) => res[r].status = 201
              /\ \A c \in clients : c.id = Id("clients", r) => c.company_name = Null

\* An individual's request that carried a company_name was answered 201 and
\* its Client row holds null.
C14_Witness ==
    \E r \in Reqs :
        /\ IndividualWithCompanyName(r) /\ res[r].status = 201
        /\ \E c \in clients : c.id = Id("clients", r) /\ c.company_name = Null

-----------------------------------------------------------------------------
\* The steps of the onboarding of a client of type ctype, in the order of the
\* claim: the call and its target.
StepOrder(ctype) ==
    <<  <<"signUp", "auth">>, <<"insert", "clients">>, <<"updateUserById", "auth">>,
        <<"insert", "users">> >>
    \o (IF ctype = "individual"
        THEN << <<"insert", "contacts">> >>
        ELSE << <<"insert", "companies">>, <<"insert", "contacts">>,
                <<"insert", "contact_company">> >>)

IsStep(call) == call.op \in {"signUp", "insert", "updateUserById"}

\* The steps request r has issued, in the order it issued them.
StepsOf(r) == SelectSeq(calls[r], IsStep)

(* C16: step ordering and gating.  The steps a request has issued are an
   initial part of: AuthIdentity, Client, metadata update, User, then Contact
   for an individual or Company, Contact, ContactCompany for a company.  At
   most one call of a request is outstanding; a call that is not a rollback
   delete is issued only when the call before it returned successfully; and
   once a call has failed, every later call of the request is a delete. *)
C16_StepOrder ==
    \A r \in Reqs :
        /\ Len(calls[r]) - Len(rets[r]) = (IF pc[r] \in {"idle", "done"} THEN 0 ELSE 1)
        /\ calls[r] # <<>> =>
              /\ Len(StepsOf(r)) <= Len(StepOrder(TypeOf(r)))
              /\ \A i \in 1..Len(StepsOf(r)) :
                    <<StepsOf(r)[i].op, StepsOf(r)[i].target>> = StepOrder(TypeOf(r))[i]
        /\ \A i \in 2..Len(calls[r]) :
              ~IsDelete(calls[r][i]) => rets[r][i - 1] = "ok"
        /\ \A i \in Returns(r) : \A j \in 1..Len(calls[r]) :
              rets[r][i] # "ok" /\ i < j => IsDelete(calls[r][j])

\* A company request issued its seven steps in order, the last one failed, and
\* only deletes followed.
C16_Witness ==
    \E r \in Reqs :
        /\ Done(r) /\ failed[r] = "contact_company"
        /\ Len(StepsOf(r)) = 7
        /\ Len(calls[r]) = 13 /\ Cardinality(DeleteIdx(r)) = 5

-----------------------------------------------------------------------------
\* The rows of a table that hold the identifier id.
RowsWithId(rows, id) == {row \in rows : row.id = id}

(* C17: referential linkage on success.  After a 201 response the User row of
   the request references the Client and the AuthIdentity the request
   created; its Contact, and for a company its Company, reference the same
   Client and name that User as responsible; client_id and user_id of the
   response are the identifiers of those Client and User rows; and the
   request created exactly one User row. *)
C17_Linkage ==
    \A r \in Reqs :
        Done(r) /\ res[r].status = 201 =>
            /\ Cardinality(CreateIdx(r, "users")) = 1
            /\ RowsWithId(auth, Id("auth", r)) # {}
            /\ RowsWithId(clients, res[r].client_id) = {ClientRow(r)}
            /\ res[r].client_id = Id("clients", r)
            /\ \E u \in users :
                  /\ RowsWithId(users, res[r].user_id) = {u}
                  /\ {v \in users : v.client_id = res[r].client_id} = {u}
                  /\ {v \in users : v.id_auth = Id("auth", r)} = {u}
                  /\ u.id = Id("users", r)
                  /\ u.email = body[r].email
            /\ \E c \in contacts :
                  /\ RowsWithId(contacts, Id("contacts", r)) = {c}
                  /\ c.client_id = res[r].client_id
                  /\ c.responsible_id = res[r].user_id
            /\ TypeOf(r) = "company" =>
                  \E c \in companies :
                      /\ RowsWithId(companies, Id("companies", r)) = {c}
                      /\ c.client_id = res[r].client_id
                      /\ c.responsible_id = res[r].user_id

\* A company request was answered 201 and its Company row names the User and
\* the Client of the response.
C17_Witness ==
    \E r \in Reqs :
        /\ Done(r) /\ res[r].status = 201 /\ TypeOf(r) = "company"
        /\ \E c \in companies :
              c.client_id = res[r].client_id /\ c.responsible_id = res[r].user_id
        /\ \E u \in users : u.id = res[r].user_id /\ u.id_auth = Id("auth", r)

-----------------------------------------------------------------------------
\* The positions of the digits of s.
DigitPositions(s) == {i \in 1..Len(s) : s[i] \in Digits}

\* out is made of the digits of in, all of them and in their order: its k-th
\* character is the character at the k-th digit position of in.
KeepsDigitsInOrder(in, out) ==
    /\ Len(out) = Cardinality(DigitPositions(in))
    /\ \A k \in 1..Len(out) :
          \E i \in DigitPositions(in) :
              /\ Cardinality({j \in DigitPositions(in) : j <= i}) = k
              /\ out[k] = in[i]

(* C15: document normalization.  The normalized document of a request holds
   digit characters only, and they are the digits of the document sent, in
   their order; normalizing it again returns it unchanged, and a document
   that is all digits is its own normalization; '123.456.789-00' becomes
   '12345678900'; and the normalized value is the document of the request's
   Client row and the cnpj of its Company row. *)
C15_Normalization ==
    \A r \in Reqs :
        loc[r].normalizedDocument # Null =>
            LET in == body[r].document
                out == loc[r].normalizedDocument
            IN  /\ \A k \in 1..Len(out) : out[k] \in Digits
                /\ KeepsDigitsInOrder(in, out)
                /\ onlyDigits(out) = out
                /\ DigitPositions(in) = 1..Len(in) => out = in
                /\ in = ExampleCpf =>
                      out = <<"1", "2", "3", "4", "5", "6", "7", "8", "9", "0", "0">>
                /\ \A c \in clients : c.id = Id("clients", r) => c.document = out
                /\ \A c \in companies : c.id = Id("companies", r) => c.cnpj = out

\* A company onboarded with '123.456.789-00': its Client row and its Company
\* row hold '12345678900'.
C15_Witness ==
    \E r \in Reqs :
        /\ body[r] # NoBody /\ Field(body[r], "document") = ExampleCpf
        /\ res[r].status = 201
        /\ \E c \in clients :
              /\ c.id = Id("clients", r)
              /\ c.document = <<"1", "2", "3", "4", "5", "6", "7", "8", "9", "0", "0">>
        /\ \E c \in companies :
              /\ c.id = Id("companies", r)
              /\ c.cnpj = <<"1", "2", "3", "4", "5", "6", "7", "8", "9", "0", "0">>

-----------------------------------------------------------------------------
\* The racing requests that were answered 201.
Winners == {r \in Racers : res[r].status = 201}

(* C18: racing onboarding requests for the same email.  At most one of the
   racing requests is answered 201; and once all of them have been answered,
   if one was answered 201 its complete record set exists and no record of
   any other racer does, and if none was answered 201 no record of any racer
   exists.
   A racer whose call throws after its signUp succeeded is answered 500 and
   keeps its AuthIdentity (see C1), so this fails. *)
C18_Race ==
    /\ Cardinality(Winners) <= 1
    /\ (\A r \in Racers : Done(r)) =>
          /\ \A w \in Winners : FullSet(w)
          /\ \A r \in Racers \ Winners : NoneOf(r)

\* The part of C18 that does not depend on the rollback: no two racers are
\* answered 201, and a winner's record set is complete.
C18_AtMostOneWinner ==
    /\ Cardinality(Winners) <= 1
    /\ \A w \in Winners : FullSet(w)

-----------------------------------------------------------------------------
\* What signInWithPassword told login l ("none" before it returned).
SignInOutcome(l) == IF loginRets[l] = <<>> THEN "none" ELSE loginRets[l][1]

(* C11: undifferentiated login failure, Identity-Provider variant.  A login
   whose email no identity holds and a login whose email an identity holds
   with another password are both answered 401 with the body
   {error: 'Invalid credentials.'}, the same for the two, and neither issues
   the lookup in 'users': signInWithPassword is its only call. *)
C11_UndifferentiatedLogin ==
    /\ \A l \in Logins :
          SignInOutcome(l) \in {"unknown", "wrong"} =>
              /\ loginPc[l] = "done"
              /\ loginRes[l] = [status |-> 401, error |-> MsgInvalidCredentials]
              /\ loginCalls[l] = <<Call("signInWithPassword", "auth", Null)>>
    /\ \A k, l \in Logins :
          SignInOutcome(k) = "unknown" /\ SignInOutcome(l) = "wrong" =>
              loginRes[k] = loginRes[l]

\* One login with an unregistered email and one with the registered email
\* and a wrong password have both been answered.
C11_Witness ==
    \E k, l \in Logins :
        /\ SignInOutcome(k) = "unknown" /\ SignInOutcome(l) = "wrong"
        /\ loginBody[k].email # loginBody[l].email
        /\ loginRes[k].status = 401 /\ loginRes[l].status = 401

\* The calls of login l returned what the credentials and the store
\* determine: neither failed for another cause.
LoginCallsAnswered(l) == \A i \in 1..Len(loginRets[l]) : loginRets[l][i] # "error"

(* C12: login after onboarding, first revision.  A login that arrives after
   an onboarding was answered 201 for its email and password, and whose two
   calls are answered by the Identity Provider and the Record Store, is
   answered 200 with the session token the Identity Provider issued for that
   onboarding's identity and with the User row that onboarding inserted. *)
C12_LoginAfterOnboarding ==
    \A l \in Logins :
        loginPc[l] = "done" /\ LoginCallsAnswered(l) =>
            \A r \in loginAfter[l] :
                /\ DOMAIN loginRes[l] = {"status", "token", "user"}
                /\ loginRes[l].status = 200
                /\ loginRes[l].token = Token(Id("auth", r))
                /\ loginRes[l].user = UserRow(r)
                /\ loginRes[l].user \in users

\* A login after a 201 onboarding was answered 200 with a token.
C12_Witness ==
    \E l \in Logins :
        /\ loginPc[l] = "done" /\ loginAfter[l] # {}
        /\ loginRes[l].status = 200
        /\ \E r \in loginAfter[l] : loginRes[l].user.id = Id("users", r)

(* C19: no orphaned identity in the first revision.  When a step after the
   creation of the AuthIdentity returned an error and the request has been
   answered, the records the request had committed are gone: no AuthIdentity
   of the request is left without its Client.
   The first revision answers 400 and deletes nothing, so this fails. *)
C19_NoOrphanFirst ==
    \A r \in Reqs :
        Done(r) /\ (\E i \in ErrorIdx(r) : i > 1) =>
            /\ NoneOf(r)
            /\ HasAuth(r) => HasClient(r)

-----------------------------------------------------------------------------
\* The createUser of request r returned: with success, with an error value.
CreateUserOk(r) ==
    \E i \in Returns(r) : calls[r][i].op = "createUser" /\ rets[r][i] = "ok"
CreateUserError(r) ==
    \E i \in Returns(r) : calls[r][i].op = "createUser" /\ rets[r][i] = "error"

(* C20: AuthIdentity precedes Client in the fourth revision.  The store holds
   a Client row of a request only if the creation of the request's
   AuthIdentity has succeeded; so a request whose identity creation returned
   an error (a duplicate email, for one) has no Client row.
   The fourth revision inserts the Client first and does not delete it when
   createUser fails, so this fails. *)
C20_AuthBeforeClient ==
    \A r \in Reqs :
        /\ HasClient(r) => CreateUserOk(r)
        /\ CreateUserError(r) => ~HasClient(r)

-----------------------------------------------------------------------------
(* C21: type-specific required fields in part_000's onboarding.  A company
   payload without company_name (missing or empty) is answered 400 with a
   validation message, and the handler issues no call.
   The check of part_000 does not look at company_name, so this fails. *)
C21_CompanyNameRequired ==
    \A r \in Reqs :
        /\ body[r] # NoBody /\ TypeOf(r) = "company"
        /\ ~Truthy(body[r], "company_name")
        => /\ Done(r)
           /\ res[r].status = 400
           /\ res[r].error \in {MsgMissingFields, MsgInvalidType}
           /\ calls[r] = <<>>

-----------------------------------------------------------------------------
\* The document sent holds no digit; the phone sent holds nothing but
\* whitespace and the characters ( ) - .
HasNoDigit(s) == DigitPositions(s) = {}
IsPunctOnly(s) == \A i \in 1..Len(s) : s[i] \in Whitespace \cup PhonePunct

NormalizesToEmpty(r) ==
    /\ body[r] # NoBody
    /\ Truthy(body[r], "document") /\ Truthy(body[r], "phone")
    /\ HasNoDigit(body[r].document) \/ IsPunctOnly(body[r].phone)

(* C22: required fields stay non-empty after normalization.  Every Client
   row holds a non-empty document and a non-empty phone, and a request whose
   document holds no digit, or whose phone holds only whitespace and the
   characters ( ) - ., is answered 400 by the required-field check without
   any call.
   The check runs before the normalization, so this fails. *)
C22_RequiredAfterNormalization ==
    /\ \A c \in clients : c.document # <<>> /\ c.phone # <<>>
    /\ \A r \in Reqs :
          NormalizesToEmpty(r) =>
              /\ Done(r)
              /\ res[r].status = 400
              /\ res[r].error \in {MsgMissingIndividual, MsgMissingCompany}
              /\ calls[r] = <<>>

-----------------------------------------------------------------------------
\* Every request of the run, and the finished earlier one (request 0).
Requests == DOMAIN pc
Owners == Requests \cup {0}

\* The rows of another owner than r.
OthersRows(rows, r) == {row \in rows : \E q \in Owners \ {r} : row.id[2] = q}
OthersLinks(r) ==
    {l \in contact_company : \E q \in Owners \ {r} : l.contact_id[2] = q}

\* This step is the return of a delete that request r issued.
DeleteStepOf(r) ==
    /\ Len(rets'[r]) = Len(rets[r]) + 1
    /\ IsDelete(calls[r][Len(rets'[r])])

\* A step that returns a delete of r leaves every row of the other owners
\* as it was.
OthersUnchangedByRollback ==
    \A r \in Requests :
        DeleteStepOf(r) =>
            /\ OthersRows(auth', r) = OthersRows(auth, r)
            /\ OthersRows(clients', r) = OthersRows(clients, r)
            /\ OthersRows(users', r) = OthersRows(users, r)
            /\ OthersRows(contacts', r) = OthersRows(contacts, r)
            /\ OthersRows(companies', r) = OthersRows(companies, r)
            /\ OthersLinks(r)' = OthersLinks(r)

\* Every delete of request r names the identifier that r's own create in
\* that table returned.
DeletesOwnIds ==
    \A r \in Requests :
        \A i \in DeleteIdx(r) :
            /\ calls[r][i].target \in Created(r)
            /\ calls[r][i].id = Id(calls[r][i].target, r)

(* C23: rollback touches only the request's own records.  Every delete that
   a rollback sequence issues names an identifier that a create of the same
   request returned, and the step in which such a delete returns leaves the
   rows of every other request, finished or in flight, unchanged. *)
C23_RollbackFrame == []DeletesOwnIds /\ [][OthersUnchangedByRollback]_vars

\* A request rolled back with successful deletes while another request, in
\* flight, held records of its own; the earlier records are those of Init.
C23_Witness ==
    \E r, q \in Requests :
        /\ r # q
        /\ Done(r) /\ res[r].status = 400
        /\ Cardinality(DeleteIdx(r)) >= 2 /\ DeletesAllOk(r)
        /\ pc[q] \notin {"idle", "done"}
        /\ HasAuth(q) /\ HasClient(q)
        /\ PriorUnchanged

-----------------------------------------------------------------------------
\* Request r has its response: one of the three statuses.
Answered(r) == Done(r) /\ res[r].status \in {201, 400, 500}

\* A response is sent when the handler ends and not before, and it carries
\* one of the three statuses.
ResponseAtEnd ==
    \A r \in Reqs :
        /\ res[r] # NoRes <=> Done(r)
        /\ Done(r) => Answered(r)

\* Once the response of r is sent, no step sends another one or issues a
\* call of r.
NothingAfterResponse ==
    \A r \in Reqs :
        res[r] # NoRes => res'[r] = res[r] /\ calls'[r] = calls[r]

(* C24: exactly one response.  When every awaited call returns (a result, an
   error or an exception), every request that arrived is eventually answered
   with status 201, 400 or 500; the response is sent once, and no call of the
   request is issued after it. *)
C24_ExactlyOneResponse ==
    /\ \A r \in Reqs : (pc[r] # "idle") ~> Answered(r)
    /\ []ResponseAtEnd
    /\ [][NothingAfterResponse]_vars

\* A request was answered after calls of all three kinds: results, an error
\* value, and an exception of a delete that the rollback swallowed.
C24_Witness ==
    \E r \in Reqs :
        /\ Answered(r)
        /\ Len(rets[r]) = Len(calls[r])
        /\ \E i \in Returns(r) : rets[r][i] = "ok"
        /\ \E i \in Returns(r) : rets[r][i] = "error"
        /\ "throw" \in swallowed[r]

=============================================================================
